---- MODULE Spec2Model ----
(***************************************************************************)
(* Verification model of kapp's preflight safety layer:                    *)
(*   - crdupgradesafety: FlattenSchema, CalculateFlatSchemaDiff, the       *)
(*     EnumChangeValidation / RequiredFieldChangeValidation validators and *)
(*     ChangeValidator.Validate;                                           *)
(*   - permissions: Preflight (SetConfig, SetEnabled, Run) and the         *)
(*     SelfSubjectAccessReview strategy.                                   *)
(* Each part has its own specification over the shared variables; the      *)
(* variables of the other parts stay at their initial values.              *)
(***************************************************************************)
EXTENDS Integers, Sequences, FiniteSets, TLC

VARIABLES
    \* --- EnumChangeValidation / RequiredFieldChangeValidation called on a FieldDiff
    vIn,        \* the FieldDiff as handed to the validator
    vDiff,      \* the FieldDiff's nodes now (the validators write through diff.Old / diff.New)
    vCall,      \* which validator was called last ("none" before any call)
    vRes,       \* what that call returned: [handled, err]
    \* --- CalculateFlatSchemaDiff
    dOld, dNew, \* the two FlatSchemas o and n
    dTodo,      \* paths of o the range loop has not visited yet
    dMap,       \* diffMap
    dErr,       \* the returned error (NoErr while none)
    dPc,        \* "loop" | "done"
    \* --- ChangeValidator.Validate
    cvOld, cvNew,   \* the two CRDs: sequences of versions [Name, Schema]
    cvVals,         \* cv.Validations: a sequence of validations
    cvIdx,          \* index of the version of old the outer loop is at
    cvDiffs,        \* diffs still to range over for that version
    cvField,        \* the field the chain is running on ("" when none)
    cvDiff,         \* that field's FieldDiff (mutated in place by validations)
    cvVi,           \* index of the next validation of the chain
    cvHandled,      \* the loop's handled flag
    cvErrs,         \* errs
    cvCalls,        \* log of validation invocations: <<version index, field, validation index, ok>>
    cvRet,          \* the value Validate returned
    cvPc,           \* "versions" | "fields" | "chain" | "done"
    \* --- permissions.Preflight
    pEnabled,       \* p.enabled
    pConfig,        \* p.config.PermissionValidatorResource
    pCall,          \* the last call made on the Preflight and what it returned
    pAccepted,      \* the strategy name of the last SetConfig that returned nil ("unset" before)
    rPc,            \* Run: "idle" | "checking" | "returned"
    rStrategy,      \* the PermissionValidator Run built ("none" outside a Run)
    rChanges,       \* changeGraph.All()
    rIdx,           \* index of the change the loop is at
    rVerbs,         \* verbs still to check for that change
    rChecks,        \* log of validator.Validate calls: [change, verb, strategy, err]
    rErrorSet,      \* errorSet
    rRet,           \* what Run returned
    \* --- FlattenSchema
    fSchema,        \* the schema tree handed to FlattenSchema
    fMap,           \* fieldMap
    fStack,         \* the SchemaHas calls under way: [node, path, names still to walk]
    fPc,            \* "start" | "walk" | "done"
    \* --- SelfSubjectAccessReviewValidator
    aQueries,       \* the SelfSubjectAccessReviews sent to ssarClient.Create so far
    aCur,           \* the ValidatePermissions call under way: its attributes, Create's answer
    aLog,           \* the calls that returned: [attrib, resp, err, queries sent by then]
    aPc,            \* "idle" | "created"
    \* --- SelfSubjectRulesReviewValidator
    kCache,         \* rv.cache: namespace -> rules
    kMu,            \* rv.mu: the caller holding it, "free" when none
    kPc,            \* per caller: "idle" | "lock" | "fetching" | "eval"
    kAttr,          \* per caller: the attributes of its call under way
    kFetched,       \* per caller: the query of that call: "none" | "pending" | "failed" | "incomplete" | "ok"
    kFetches,       \* the SelfSubjectRulesReviews sent: [ns, caller, status, rules]
    kLog,           \* the calls that returned: [caller, attrib, ns, fetch, evaluated, rules, err]
    kStarted,       \* number of calls begun
    \* --- RulesForBinding
    bRes,           \* the resource: its Kind, whether AsTypedObj succeeds, Namespace, RoleRef
    bRoles,         \* the Roles the cluster holds: <<namespace, name>>
    bClusterRoles,  \* the ClusterRoles the cluster holds: names
    bGets,          \* the Get calls made on the rbac client
    bRet,           \* what RulesForBinding returned: [rules, err]
    bPc,            \* "start" | "RoleBinding" | "ClusterRoleBinding" | "done"
    \* --- Validate on one version, the nodes as objects reached through pointers
    hHeap,      \* the objects: reference -> node
    hWalk,      \* the nodes SchemaHas has yet to hand to FlattenSchema's callback
    hFlat,      \* flatOld and flatNew: side -> path -> reference
    hTodo,      \* the paths of flatOld CalculateFlatSchemaDiff has yet to range over
    hDiffs,     \* diffs: path -> [Old, New] references, those not ranged over yet
    hCur,       \* the FieldDiff of the field being validated
    hVals,      \* cv.Validations
    hVi,        \* index of the next validation of the chain
    hHandled,   \* handled
    hPc         \* "flatten" | "diff" | "fields" | "chain" | "done"

validationVars == <<vIn, vDiff, vCall, vRes>>
diffVars       == <<dOld, dNew, dTodo, dMap, dErr, dPc>>
validateVars   == <<cvOld, cvNew, cvVals, cvIdx, cvDiffs, cvField, cvDiff, cvVi,
                    cvHandled, cvErrs, cvCalls, cvRet, cvPc>>
preflightVars  == <<pEnabled, pConfig, pCall, pAccepted, rPc, rStrategy, rChanges,
                    rIdx, rVerbs, rChecks, rErrorSet, rRet>>
flattenVars    == <<fSchema, fMap, fStack, fPc>>
directVars     == <<aQueries, aCur, aLog, aPc>>
cachedVars     == <<kCache, kMu, kPc, kAttr, kFetched, kFetches, kLog, kStarted>>
bindingVars    == <<bRes, bRoles, bClusterRoles, bGets, bRet, bPc>>
objectVars     == <<hHeap, hWalk, hFlat, hTodo, hDiffs, hCur, hVals, hVi, hHandled, hPc>>
vars == <<validationVars, diffVars, validateVars, preflightVars, flattenVars, directVars, cachedVars, bindingVars, objectVars>>

\* What a step of one part leaves alone: the variables of the other parts.
notValidation == <<diffVars, validateVars, preflightVars, flattenVars, directVars, cachedVars, bindingVars, objectVars>>
notDiff       == <<validationVars, validateVars, preflightVars, flattenVars, directVars, cachedVars, bindingVars, objectVars>>
notValidate   == <<validationVars, diffVars, preflightVars, flattenVars, directVars, cachedVars, bindingVars, objectVars>>
notPreflight  == <<validationVars, diffVars, validateVars, flattenVars, directVars, cachedVars, bindingVars, objectVars>>
notFlatten    == <<validationVars, diffVars, validateVars, preflightVars, directVars, cachedVars, bindingVars, objectVars>>
notDirect     == <<validationVars, diffVars, validateVars, preflightVars, flattenVars, cachedVars, bindingVars, objectVars>>
notCached     == <<validationVars, diffVars, validateVars, preflightVars, flattenVars, directVars, bindingVars, objectVars>>
notBinding    == <<validationVars, diffVars, validateVars, preflightVars, flattenVars, directVars, cachedVars, objectVars>>
notObject == <<validationVars, diffVars, validateVars, preflightVars, flattenVars, directVars, cachedVars, bindingVars>>

(***************************************************************************)
(* Bounds of the model.                                                    *)
(***************************************************************************)
MaxEnumLen == 2
MaxRequiredLen == 1
MaxValidations == 2
MaxChanges == 2
MaxCalls == 2

\* Sequences over S of length at most n.
SeqsUpTo(S, n) == UNION {[1..k -> S] : k \in 0..n}

Range(s) == {s[i] : i \in DOMAIN s}

(***************************************************************************)
(* v1.JSONSchemaProps.  Of its attributes the model keeps ID (standing for *)
(* any attribute no validation knows), Type, MinLength, Enum, Required and *)
(* Properties.  A Go slice is nil or a (possibly empty) list, which        *)
(* reflect.DeepEqual tells apart; MinLength is a *int64, nil or a number.  *)
(***************************************************************************)
NilSlice == [isNil |-> TRUE, elems |-> <<>>]
Slice(s) == [isNil |-> FALSE, elems |-> s]
len(sl) == Len(sl.elems)

NilInt64 == [isNil |-> TRUE, value |-> 0]
Int64(v) == [isNil |-> FALSE, value |-> v]

NoProperties == [x \in {} |-> x]

\* A node with no Type and no MinLength.
JSONSchemaProps(id, enum, required, properties) ==
    [ID |-> id, Type |-> "", MinLength |-> NilInt64, Enum |-> enum,
     Required |-> required, Properties |-> properties]

\* reflect.DeepEqual on two nodes, or two FieldDiffs: structural equality.
DeepEqual(a, b) == a = b

NoErr == [kind |-> "nil", values |-> {}]
Err(kind, values) == [kind |-> kind, values |-> values]

FieldDiff(o, n) == [Old |-> o, New |-> n]

\* sets.NewString() filled from a list
StringSet(sl) == Range(sl.elems)

(***************************************************************************)
(* EnumChangeValidation.  handled() clears Enum on both nodes of the diff  *)
(* (through the pointers, so the caller sees it) and compares the rest.    *)
(***************************************************************************)
EnumCleared(diff) ==
    FieldDiff([diff.Old EXCEPT !.Enum = Slice(<<>>)], [diff.New EXCEPT !.Enum = Slice(<<>>)])

\* EnumError without the check for enums added where there were none.
EnumErrorRemovedOnly(diff) ==
    LET diffSet == StringSet(diff.Old.Enum) \ StringSet(diff.New.Enum)
    IN  IF Cardinality(diffSet) > 0 THEN Err("enum values removed", diffSet) ELSE NoErr

EnumError(diff) ==
    IF len(diff.Old.Enum) = 0 /\ len(diff.New.Enum) > 0
    THEN Err("enums added", {})
    ELSE LET diffSet == StringSet(diff.Old.Enum) \ StringSet(diff.New.Enum)
         IN  IF Cardinality(diffSet) > 0 THEN Err("enum values removed", diffSet) ELSE NoErr

\* EnumChangeValidation claiming the diff only when it returns no error.
EnumChangeValidationHandledWhenSafe(diff) ==
    LET after == EnumCleared(diff)
    IN  [handled |-> DeepEqual(after.Old, after.New) /\ EnumError(diff) = NoErr,
         err |-> EnumError(diff), diff |-> after]

EnumChangeValidation(diff) ==
    LET after == EnumCleared(diff)
    IN  [handled |-> DeepEqual(after.Old, after.New), err |-> EnumError(diff), diff |-> after]

(***************************************************************************)
(* RequiredFieldChangeValidation.                                          *)
(***************************************************************************)
RequiredCleared(diff) ==
    FieldDiff([diff.Old EXCEPT !.Required = Slice(<<>>)],
              [diff.New EXCEPT !.Required = Slice(<<>>)])

\* RequiredError with the set difference taken the other way round.
RequiredErrorOldMinusNew(diff) ==
    IF len(diff.Old.Required) = 0 /\ len(diff.New.Required) > 0
    THEN Err("required added", {})
    ELSE LET diffSet == StringSet(diff.Old.Required) \ StringSet(diff.New.Required)
         IN  IF Cardinality(diffSet) > 0 THEN Err("new required fields added", diffSet) ELSE NoErr

RequiredError(diff) ==
    IF len(diff.Old.Required) = 0 /\ len(diff.New.Required) > 0
    THEN Err("required added", {})
    ELSE LET diffSet == StringSet(diff.New.Required) \ StringSet(diff.Old.Required)
         IN  IF Cardinality(diffSet) > 0 THEN Err("new required fields added", diffSet) ELSE NoErr

RequiredFieldChangeValidation(diff) ==
    LET after == RequiredCleared(diff)
    IN  [handled |-> DeepEqual(after.Old, after.New), err |-> RequiredError(diff), diff |-> after]

(***************************************************************************)
(* Specification SpecValidation: the two supplied validations called on    *)
(* FieldDiffs, one after the other in any order, each call working on the  *)
(* nodes as the previous call left them.                                   *)
(***************************************************************************)
IDs == {"", "bar"}
EnumValues == {"foo", "bar"}
RequiredNames == {"a", "b"}

Slices(S, n) == {NilSlice} \cup {Slice(s) : s \in SeqsUpTo(S, n)}

\* The nodes of a FieldDiff: CalculateFlatSchemaDiff hands them over with
\* Properties cleared.
FieldNodes ==
    {JSONSchemaProps(id, e, r, NoProperties) :
        id \in IDs, e \in Slices(EnumValues, MaxEnumLen), r \in Slices(RequiredNames, MaxRequiredLen)}

NoRes == [handled |-> FALSE, err |-> NoErr]

ValidationInit ==
    /\ vIn \in {FieldDiff(o, n) : o \in FieldNodes, n \in FieldNodes}
    /\ vDiff = vIn
    /\ vCall = "none"
    /\ vRes = NoRes

ValidationIdle ==
    /\ vIn = FieldDiff(JSONSchemaProps("", NilSlice, NilSlice, NoProperties),
                       JSONSchemaProps("", NilSlice, NilSlice, NoProperties))
    /\ vDiff = vIn
    /\ vCall = "none"
    /\ vRes = NoRes

CallEnumChangeValidation ==
    /\ UNCHANGED notValidation
    /\ LET r == EnumChangeValidation(vDiff)
       IN  /\ vCall # "Enum"
           /\ vIn' = vDiff
           /\ vDiff' = r.diff
           /\ vCall' = "Enum"
           /\ vRes' = [handled |-> r.handled, err |-> r.err]

CallRequiredFieldChangeValidation ==
    /\ UNCHANGED notValidation
    /\ LET r == RequiredFieldChangeValidation(vDiff)
       IN  /\ vCall # "Required"
           /\ vIn' = vDiff
           /\ vDiff' = r.diff
           /\ vCall' = "Required"
           /\ vRes' = [handled |-> r.handled, err |-> r.err]

(***************************************************************************)
(* CalculateFlatSchemaDiff.  A FlatSchema is a function from paths to      *)
(* nodes.  The range loop over o visits its paths in an order Go does not  *)
(* fix; DiffVisit is the loop body for one path, acc = [map, err] being    *)
(* diffMap and the error returned so far.                                  *)
(***************************************************************************)
ClearProperties(node) == [node EXCEPT !.Properties = NoProperties]

NoDiffs == [x \in {} |-> x]

\* DiffVisit comparing the nodes with their child Properties left in.
DiffVisitKeepProperties(o, n, acc, field) ==
    IF field \notin DOMAIN n
    THEN [map |-> acc.map, err |-> Err("field removed", {field})]
    ELSE IF ~DeepEqual(o[field], n[field])
         THEN [map |-> (field :> FieldDiff(o[field], n[field])) @@ acc.map, err |-> NoErr]
         ELSE acc

DiffVisit(o, n, acc, field) ==
    IF field \notin DOMAIN n
    THEN [map |-> acc.map, err |-> Err("field removed", {field})]
    ELSE LET oldCopy == ClearProperties(o[field])
             newCopy == ClearProperties(n[field])
         IN  IF ~DeepEqual(oldCopy, newCopy)
             THEN [map |-> (field :> FieldDiff(oldCopy, newCopy)) @@ acc.map, err |-> NoErr]
             ELSE acc

\* The whole function, the paths of o visited in the order given; the first
\* missing path returns at once.
RECURSIVE DiffFrom(_, _, _, _)
DiffFrom(o, n, acc, order) ==
    IF order = <<>> \/ acc.err # NoErr
    THEN acc
    ELSE DiffFrom(o, n, DiffVisit(o, n, acc, Head(order)), Tail(order))

CalculateFlatSchemaDiff(o, n, order) == DiffFrom(o, n, [map |-> NoDiffs, err |-> NoErr], order)

\* The orders a range over a map with key set S may take.
Orders(S) == {s \in [1..Cardinality(S) -> S] : Range(s) = S}

(***************************************************************************)
(* Specification SpecDiff: CalculateFlatSchemaDiff on two FlatSchemas, one *)
(* loop iteration per step.                                                *)
(***************************************************************************)
DiffPaths == {"^", "^.foo", "^.bar"}

\* Nodes of a FlatSchema keep their child Properties (FlattenSchema stores a
\* DeepCopy of each node).
DiffNodes ==
    {JSONSchemaProps(id, NilSlice, NilSlice, props) :
        id \in IDs,
        props \in {NoProperties,
                   [x \in {"bar"} |-> JSONSchemaProps("bar", NilSlice, NilSlice, NoProperties)]}}

FlatSchemas == UNION {[D -> DiffNodes] : D \in SUBSET DiffPaths}

DiffInit ==
    /\ dOld \in FlatSchemas
    /\ dNew \in FlatSchemas
    /\ dTodo = DOMAIN dOld
    /\ dMap = NoDiffs
    /\ dErr = NoErr
    /\ dPc = "loop"

DiffIdle ==
    /\ dOld = NoDiffs
    /\ dNew = NoDiffs
    /\ dTodo = {}
    /\ dMap = NoDiffs
    /\ dErr = NoErr
    /\ dPc = "done"

\* One iteration of the loop, on any path not visited yet.
DiffStep ==
    /\ dPc = "loop"
    /\ \E field \in dTodo :
        LET r == DiffVisit(dOld, dNew, [map |-> dMap, err |-> NoErr], field)
        IN  /\ dMap' = r.map
            /\ dErr' = r.err
            /\ dTodo' = dTodo \ {field}
            /\ dPc' = IF r.err # NoErr THEN "done" ELSE "loop"
    /\ UNCHANGED <<dOld, dNew>>
    /\ UNCHANGED notDiff

\* The loop is over: return diffMap, nil.
DiffReturn ==
    /\ dPc = "loop"
    /\ dTodo = {}
    /\ dPc' = "done"
    /\ UNCHANGED <<dOld, dNew, dTodo, dMap, dErr>>
    /\ UNCHANGED notDiff

(***************************************************************************)
(* FlattenSchema: manifestcomparators.SchemaHas walks the tree from the    *)
(* root, path "^", a child named c of the node at path p being at p.c, and *)
(* the callback stores a DeepCopy of every node it is given.               *)
(***************************************************************************)
RECURSIVE FlattenAt(_, _)
RECURSIVE FlattenChildren(_, _, _)
FlattenChildren(node, names, path) ==
    IF names = {}
    THEN [x \in {} |-> x]
    ELSE LET c == CHOOSE c \in names : TRUE
         IN  FlattenAt(node.Properties[c], path \o "." \o c)
                 @@ FlattenChildren(node, names \ {c}, path)

FlattenAt(node, path) ==
    (path :> node) @@ FlattenChildren(node, DOMAIN node.Properties, path)

FlattenSchema(schema) == FlattenAt(schema, "^")

(***************************************************************************)
(* Specification SpecFlatten: FlattenSchema on a schema tree, one step per *)
(* node SchemaHas hands to the callback.  SchemaHas calls the callback on  *)
(* a node and then ranges over its Properties, a Go map, in an order Go    *)
(* does not fix; the callback assigns fieldMap[simpleLocation.String()],   *)
(* replacing what that key held.                                           *)
(***************************************************************************)
PropertyNames == {"a", "b", "a.b"}

LeafNodes == {JSONSchemaProps(id, NilSlice, NilSlice, NoProperties) : id \in IDs}

\* Nodes with no child or the one child "b".
InnerNodes ==
    LeafNodes \cup
    {JSONSchemaProps(id, NilSlice, NilSlice, [x \in {"b"} |-> leaf]) :
        id \in IDs, leaf \in LeafNodes}

\* Roots: any set of children out of PropertyNames.
SchemaTrees ==
    {JSONSchemaProps(id, NilSlice, NilSlice, props) :
        id \in IDs, props \in UNION {[D -> InnerNodes] : D \in SUBSET PropertyNames}}

\* field.Path.Child(name).String(): the parent's string, a dot, the name.
ChildPath(path, name) == path \o "." \o name

SchemaHasCall(node, path) == [node |-> node, path |-> path, names |-> DOMAIN node.Properties]

\* fieldMap[path] = node
PutField(map, path, node) ==
    [x \in DOMAIN map \cup {path} |-> IF x = path THEN node ELSE map[x]]

FlattenInit ==
    /\ fSchema \in SchemaTrees
    /\ fMap = NoDiffs
    /\ fStack = <<>>
    /\ fPc = "start"

FlattenIdle ==
    /\ fSchema = JSONSchemaProps("", NilSlice, NilSlice, NoProperties)
    /\ fMap = NoDiffs
    /\ fStack = <<>>
    /\ fPc = "done"

\* SchemaHas on the root: the callback stores it at "^".
FlattenRoot ==
    /\ fPc = "start"
    /\ fMap' = PutField(fMap, "^", fSchema)
    /\ fStack' = <<SchemaHasCall(fSchema, "^")>>
    /\ fPc' = "walk"
    /\ UNCHANGED fSchema
    /\ UNCHANGED notFlatten

\* The range over Properties of the innermost call reaches a child: the
\* callback stores it, SchemaHas goes down into it.
FlattenChild ==
    /\ fPc = "walk"
    /\ fStack # <<>>
    /\ LET top == fStack[Len(fStack)]
       IN  \E name \in top.names :
            LET child == top.node.Properties[name]
                path == ChildPath(top.path, name)
            IN  /\ fMap' = PutField(fMap, path, child)
                /\ fStack' = Append([fStack EXCEPT ![Len(fStack)].names = top.names \ {name}],
                                    SchemaHasCall(child, path))
    /\ UNCHANGED <<fSchema, fPc>>
    /\ UNCHANGED notFlatten

\* The innermost call has walked all its Properties and returns.
FlattenUp ==
    /\ fPc = "walk"
    /\ fStack # <<>>
    /\ fStack[Len(fStack)].names = {}
    /\ fStack' = SubSeq(fStack, 1, Len(fStack) - 1)
    /\ UNCHANGED <<fSchema, fMap, fPc>>
    /\ UNCHANGED notFlatten

\* return fieldMap
FlattenReturn ==
    /\ fPc = "walk"
    /\ fStack = <<>>
    /\ fPc' = "done"
    /\ UNCHANGED <<fSchema, fMap, fStack>>
    /\ UNCHANGED notFlatten

(***************************************************************************)
(* ChangeValidator.Validate.  A CRD is its Spec.Versions, each version a   *)
(* record [Name, Schema] with Schema the root of its OpenAPIV3Schema.      *)
(***************************************************************************)
Version(name, schema) == [Name |-> name, Schema |-> schema]

\* A version whose Schema, a *CustomResourceValidation, is nil.
NilValidation == [isNil |-> TRUE]

\* manifestcomparators.GetVersionByName: the index of the first version of
\* crd with that name, 0 standing for nil.
GetVersionByName(crd, name) ==
    IF \E i \in DOMAIN crd : crd[i].Name = name
    THEN CHOOSE i \in DOMAIN crd :
            /\ crd[i].Name = name
            /\ \A j \in DOMAIN crd : crd[j].Name = name => i <= j
    ELSE 0

\* A ChangeValidation is a function of the diff.  The supplied ones are
\* EnumChangeValidation and RequiredFieldChangeValidation; the other four
\* are the constant validations of TestChangeValidator.
StubValidations == {"handled", "handledFail", "deferred", "deferredFail"}

ApplyValidation(validation, diff) ==
    CASE validation = "Enum" -> EnumChangeValidation(diff)
      [] validation = "Required" -> RequiredFieldChangeValidation(diff)
      [] validation = "handled" -> [handled |-> TRUE, err |-> NoErr, diff |-> diff]
      [] validation = "handledFail" -> [handled |-> TRUE, err |-> Err("fail", {}), diff |-> diff]
      [] validation = "deferred" -> [handled |-> FALSE, err |-> NoErr, diff |-> diff]
      [] validation = "deferredFail" -> [handled |-> FALSE, err |-> Err("fail", {}), diff |-> diff]

\* The entries of errs.  The diff-phase message names the version only; the
\* other two name the version and the field, the first wrapping the
\* validation's error.
DiffPhaseError(version) ==
    [kind |-> "calculating schema diff", version |-> version, field |-> "", cause |-> NoErr]
ValidationError(version, field, err) ==
    [kind |-> "validation", version |-> version, field |-> field, cause |-> err]
UnknownChangeError(version, field) ==
    [kind |-> "unknown change", version |-> version, field |-> field, cause |-> NoErr]

\* What the message of an entry of errs spells out: the values its format
\* string prints and, for the wrapped error of a validation (%w), that
\* error's own words.
ErrorText(e) ==
    CASE e.kind = "calculating schema diff" -> {e.kind, e.version}
      [] e.kind = "validation" -> {e.version, e.field, e.cause.kind} \cup e.cause.values
      [] e.kind = "unknown change" -> {e.version, e.field, e.kind}

\* errors.Join(errs...) when errs is not empty, nil otherwise.
NilError == <<>>
JoinErrors(errs) == errs

(***************************************************************************)
(* Specification SpecValidate: Validate on two CRDs, one step per          *)
(* iteration of each of its loops.                                         *)
(***************************************************************************)
VersionNames == {"v1alpha1", "v1"}

SchemaTree(id, withSpec) ==
    JSONSchemaProps(id, NilSlice, NilSlice,
        IF withSpec
        THEN [x \in {"spec"} |-> JSONSchemaProps(id, NilSlice, NilSlice, NoProperties)]
        ELSE NoProperties)

Schemas == {SchemaTree(id, withSpec) : id \in IDs, withSpec \in BOOLEAN}

\* The API server admits no CRD with two versions of one name.
CRDs ==
    {crd \in SeqsUpTo({Version(name, s) : name \in VersionNames, s \in Schemas},
                      Cardinality(VersionNames)) :
        \A i, j \in DOMAIN crd : crd[i].Name = crd[j].Name => i = j}

\* new is read through GetVersionByName only, so one order of its versions
\* stands for all.
NewCRDs ==
    {crd \in CRDs : Len(crd) = 2 => crd[1].Name = "v1alpha1"}

ValidateInit ==
    /\ cvOld \in CRDs
    /\ cvNew \in NewCRDs
    /\ cvVals \in SeqsUpTo(StubValidations, MaxValidations)
    /\ cvIdx = 1
    /\ cvDiffs = NoDiffs
    /\ cvField = ""
    /\ cvDiff = FieldDiff(SchemaTree("", FALSE), SchemaTree("", FALSE))
    /\ cvVi = 1
    /\ cvHandled = FALSE
    /\ cvErrs = <<>>
    /\ cvCalls = <<>>
    /\ cvRet = NilError
    /\ cvPc = "versions"

ValidateIdle ==
    /\ cvOld = <<>>
    /\ cvNew = <<>>
    /\ cvVals = <<>>
    /\ cvIdx = 1
    /\ cvDiffs = NoDiffs
    /\ cvField = ""
    /\ cvDiff = FieldDiff(SchemaTree("", FALSE), SchemaTree("", FALSE))
    /\ cvVi = 1
    /\ cvHandled = FALSE
    /\ cvErrs = <<>>
    /\ cvCalls = <<>>
    /\ cvRet = NilError
    /\ cvPc = "done"

\* ValidateVersion leaving the outer loop on a diff-phase error instead of
\* continuing with the next version.
ValidateVersionBreakOnError ==
    /\ UNCHANGED notValidate
    /\ cvPc = "versions"
    /\ cvIdx <= Len(cvOld)
    /\ LET version == cvOld[cvIdx]
           ni == GetVersionByName(cvNew, version.Name)
       IN  IF ni = 0
           THEN /\ cvIdx' = cvIdx + 1
                /\ UNCHANGED <<cvDiffs, cvErrs, cvPc>>
           ELSE IF version.Schema = NilValidation \/ cvNew[ni].Schema = NilValidation
           THEN /\ cvPc' = "panic"
                /\ UNCHANGED <<cvDiffs, cvErrs, cvIdx>>
           ELSE LET flatOld == FlattenSchema(version.Schema)
                    flatNew == FlattenSchema(cvNew[ni].Schema)
                IN  \E order \in Orders(DOMAIN flatOld) :
                        LET r == CalculateFlatSchemaDiff(flatOld, flatNew, order)
                        IN  IF r.err # NoErr
                            THEN /\ cvErrs' = Append(cvErrs, DiffPhaseError(version.Name))
                                 /\ cvIdx' = Len(cvOld) + 1
                                 /\ UNCHANGED <<cvDiffs, cvPc>>
                            ELSE /\ cvDiffs' = r.map
                                 /\ cvPc' = "fields"
                                 /\ UNCHANGED <<cvErrs, cvIdx>>
    /\ UNCHANGED <<cvOld, cvNew, cvVals, cvField, cvDiff, cvVi, cvHandled, cvCalls, cvRet>>

\* The head of the outer loop for the next version of old: skip it when new
\* has no such version, else flatten both schemas and diff them.  Both
\* schemas are read as version.Schema.OpenAPIV3Schema with no test of
\* version.Schema: on a nil Schema the read is a nil pointer dereference,
\* and the panic ends Validate with no result.
ValidateVersion ==
    /\ cvPc = "versions"
    /\ cvIdx <= Len(cvOld)
    /\ LET version == cvOld[cvIdx]
           ni == GetVersionByName(cvNew, version.Name)
       IN  IF ni = 0
           THEN /\ cvIdx' = cvIdx + 1
                /\ UNCHANGED <<cvDiffs, cvErrs, cvPc>>
           ELSE IF version.Schema = NilValidation \/ cvNew[ni].Schema = NilValidation
           THEN /\ cvPc' = "panic"
                /\ UNCHANGED <<cvDiffs, cvErrs, cvIdx>>
           ELSE LET flatOld == FlattenSchema(version.Schema)
                    flatNew == FlattenSchema(cvNew[ni].Schema)
                IN  \E order \in Orders(DOMAIN flatOld) :
                        LET r == CalculateFlatSchemaDiff(flatOld, flatNew, order)
                        IN  IF r.err # NoErr
                            THEN /\ cvErrs' = Append(cvErrs, DiffPhaseError(version.Name))
                                 /\ cvIdx' = cvIdx + 1
                                 /\ UNCHANGED <<cvDiffs, cvPc>>
                            ELSE /\ cvDiffs' = r.map
                                 /\ cvPc' = "fields"
                                 /\ UNCHANGED <<cvErrs, cvIdx>>
    /\ UNCHANGED <<cvOld, cvNew, cvVals, cvField, cvDiff, cvVi, cvHandled, cvCalls, cvRet>>
    /\ UNCHANGED notValidate

\* The head of the loop over diffs: any field not ranged over yet.
ValidateField ==
    /\ cvPc = "fields"
    /\ \E field \in DOMAIN cvDiffs :
        /\ cvField' = field
        /\ cvDiff' = cvDiffs[field]
        /\ cvDiffs' = [f \in DOMAIN cvDiffs \ {field} |-> cvDiffs[f]]
    /\ cvHandled' = FALSE
    /\ cvVi' = 1
    /\ cvPc' = "chain"
    /\ UNCHANGED <<cvOld, cvNew, cvVals, cvIdx, cvErrs, cvCalls, cvRet>>
    /\ UNCHANGED notValidate

\* ValidateInvoke without the break: the chain goes on after a validation
\* has claimed the diff.
ValidateInvokeNoBreak ==
    /\ UNCHANGED notValidate
    /\ cvPc = "chain"
    /\ cvVi <= Len(cvVals)
    /\ LET r == ApplyValidation(cvVals[cvVi], cvDiff)
           version == cvOld[cvIdx]
       IN  /\ cvDiff' = r.diff
           /\ cvCalls' = Append(cvCalls, <<cvIdx, cvField, cvVi, r.handled>>)
           /\ cvErrs' = IF r.err # NoErr
                        THEN Append(cvErrs, ValidationError(version.Name, cvField, r.err))
                        ELSE cvErrs
           /\ cvHandled' = (cvHandled \/ r.handled)
           /\ cvVi' = cvVi + 1
    /\ UNCHANGED <<cvOld, cvNew, cvVals, cvIdx, cvDiffs, cvField, cvRet, cvPc>>

\* ValidateInvoke with every validation handed nodes of its own: what one
\* validation clears, the next does not see.
ValidateInvokeOnCopies ==
    /\ UNCHANGED notValidate
    /\ cvPc = "chain"
    /\ ~cvHandled
    /\ cvVi <= Len(cvVals)
    /\ LET r == ApplyValidation(cvVals[cvVi], cvDiff)
           version == cvOld[cvIdx]
       IN  /\ cvDiff' = cvDiff
           /\ cvCalls' = Append(cvCalls, <<cvIdx, cvField, cvVi, r.handled>>)
           /\ cvErrs' = IF r.err # NoErr
                        THEN Append(cvErrs, ValidationError(version.Name, cvField, r.err))
                        ELSE cvErrs
           /\ cvHandled' = r.handled
           /\ cvVi' = IF r.handled THEN cvVi ELSE cvVi + 1
    /\ UNCHANGED <<cvOld, cvNew, cvVals, cvIdx, cvDiffs, cvField, cvRet, cvPc>>

\* ValidateInvoke recording the error of a validation only when that
\* validation claims the diff.
ValidateInvokeErrWhenHandled ==
    /\ UNCHANGED notValidate
    /\ cvPc = "chain"
    /\ ~cvHandled
    /\ cvVi <= Len(cvVals)
    /\ LET r == ApplyValidation(cvVals[cvVi], cvDiff)
           version == cvOld[cvIdx]
       IN  /\ cvDiff' = r.diff
           /\ cvCalls' = Append(cvCalls, <<cvIdx, cvField, cvVi, r.handled>>)
           /\ cvErrs' = IF r.err # NoErr /\ r.handled
                        THEN Append(cvErrs, ValidationError(version.Name, cvField, r.err))
                        ELSE cvErrs
           /\ cvHandled' = r.handled
           /\ cvVi' = IF r.handled THEN cvVi ELSE cvVi + 1
    /\ UNCHANGED <<cvOld, cvNew, cvVals, cvIdx, cvDiffs, cvField, cvRet, cvPc>>

\* One iteration of the loop over cv.Validations.
ValidateInvoke ==
    /\ cvPc = "chain"
    /\ ~cvHandled
    /\ cvVi <= Len(cvVals)
    /\ LET r == ApplyValidation(cvVals[cvVi], cvDiff)
           version == cvOld[cvIdx]
       IN  /\ cvDiff' = r.diff
           /\ cvCalls' = Append(cvCalls, <<cvIdx, cvField, cvVi, r.handled>>)
           /\ cvErrs' = IF r.err # NoErr
                        THEN Append(cvErrs, ValidationError(version.Name, cvField, r.err))
                        ELSE cvErrs
           /\ cvHandled' = r.handled
           /\ cvVi' = IF r.handled THEN cvVi ELSE cvVi + 1
    /\ UNCHANGED <<cvOld, cvNew, cvVals, cvIdx, cvDiffs, cvField, cvRet, cvPc>>
    /\ UNCHANGED notValidate

\* ValidateFieldEnd without the deny-by-default error.
ValidateFieldEndNoDeny ==
    /\ UNCHANGED notValidate
    /\ cvPc = "chain"
    /\ cvHandled \/ cvVi > Len(cvVals)
    /\ cvPc' = "fields"
    /\ UNCHANGED <<cvOld, cvNew, cvVals, cvIdx, cvDiffs, cvField, cvDiff, cvVi,
                   cvHandled, cvErrs, cvCalls, cvRet>>

\* After the chain: the deny-by-default error when no validation claimed
\* the diff.
ValidateFieldEnd ==
    /\ cvPc = "chain"
    /\ cvHandled \/ cvVi > Len(cvVals)
    /\ cvErrs' = IF ~cvHandled
                 THEN Append(cvErrs, UnknownChangeError(cvOld[cvIdx].Name, cvField))
                 ELSE cvErrs
    /\ cvPc' = "fields"
    /\ UNCHANGED <<cvOld, cvNew, cvVals, cvIdx, cvDiffs, cvField, cvDiff, cvVi,
                   cvHandled, cvCalls, cvRet>>
    /\ UNCHANGED notValidate

\* The diffs of this version are done: on to the next version.
ValidateVersionEnd ==
    /\ cvPc = "fields"
    /\ DOMAIN cvDiffs = {}
    /\ cvIdx' = cvIdx + 1
    /\ cvPc' = "versions"
    /\ UNCHANGED <<cvOld, cvNew, cvVals, cvDiffs, cvField, cvDiff, cvVi, cvHandled,
                   cvErrs, cvCalls, cvRet>>
    /\ UNCHANGED notValidate

ValidateResult(errs) == IF Len(errs) > 0 THEN JoinErrors(errs) ELSE NilError

ValidateReturn ==
    /\ cvPc = "versions"
    /\ cvIdx > Len(cvOld)
    /\ cvRet' = ValidateResult(cvErrs)
    /\ cvPc' = "done"
    /\ UNCHANGED <<cvOld, cvNew, cvVals, cvIdx, cvDiffs, cvField, cvDiff, cvVi,
                   cvHandled, cvErrs, cvCalls>>
    /\ UNCHANGED notValidate

(***************************************************************************)
(* Specification SpecChain: Validate with the chain made of the two        *)
(* validations this package supplies, in either order, on CRDs of one      *)
(* version whose schema has the one property "spec" (the CRD of the        *)
(* end-to-end test), or whose version has no schema at all.                *)
(***************************************************************************)
SuppliedValidations == <<"Enum", "Required">>

ChainValidations == {SuppliedValidations, <<"Required", "Enum">>}

\* The property "spec" of the end-to-end test: type string, with a
\* minLength or none.
SpecProperty(id, minLength, enum, required) ==
    [JSONSchemaProps(id, enum, required, NoProperties)
        EXCEPT !.Type = "string", !.MinLength = minLength]

ChainSchema(spec) ==
    [JSONSchemaProps("", NilSlice, NilSlice, [x \in {"spec"} |-> spec])
        EXCEPT !.Type = "object"]

MinLengths == {NilInt64, Int64(5), Int64(10)}

ChainEnums == {NilSlice, Slice(<<"foo">>), Slice(<<"foo", "bar">>)}

ChainRequireds == {NilSlice, Slice(<<"a">>)}

ChainSchemas ==
    {ChainSchema(SpecProperty(id, m, e, r)) :
        id \in IDs, m \in MinLengths, e \in ChainEnums, r \in ChainRequireds}

ChainCRDs == {<<Version("v1alpha1", s)>> : s \in ChainSchemas \cup {NilValidation}}

ChainInit ==
    /\ cvOld \in ChainCRDs
    /\ cvNew \in ChainCRDs
    /\ cvVals \in ChainValidations
    /\ cvIdx = 1
    /\ cvDiffs = NoDiffs
    /\ cvField = ""
    /\ cvDiff = FieldDiff(SchemaTree("", FALSE), SchemaTree("", FALSE))
    /\ cvVi = 1
    /\ cvHandled = FALSE
    /\ cvErrs = <<>>
    /\ cvCalls = <<>>
    /\ cvRet = NilError
    /\ cvPc = "versions"

(***************************************************************************)
(* Specification SpecObjects: Validate on one version present in old and   *)
(* new, with the nodes as objects reached through pointers.  hHeap holds   *)
(* the objects: those of the two CRD documents (obj = "doc", one for every *)
(* node SchemaHas hands to the callback), those the FlatSchemas point to   *)
(* ("flat") and those the FieldDiffs point to ("diff").  Every assignment  *)
(* through a pointer is an update of hHeap at the reference the pointer    *)
(* holds.                                                                  *)
(***************************************************************************)
Ref(obj, side, path) == [obj |-> obj, side |-> side, path |-> path]

NilRef == Ref("nil", "", "")

NoObjects == [r \in {} |-> r]

Sides == {"old", "new"}

\* DeepCopy handing back the pointer it was called on: no object is made.
DeepCopyShared(heap, src, fresh) == [heap |-> heap, ptr |-> src]

\* s.DeepCopy(): a new object equal to the one src points to, and the
\* pointer to it.
DeepCopy(heap, src, fresh) == [heap |-> (fresh :> heap[src]) @@ heap, ptr |-> fresh]

\* ptr.Properties = nil
SetPropertiesNil(heap, ptr) == [heap EXCEPT ![ptr] = ClearProperties(heap[ptr])]

ObjectTrees ==
    {JSONSchemaProps("", e, NilSlice, props) :
        e \in {NilSlice, Slice(<<"foo">>)},
        props \in {NoProperties} \cup
                  {[x \in {"spec"} |-> JSONSchemaProps("", e2, r2, NoProperties)] :
                      e2 \in {NilSlice, Slice(<<"foo">>)}, r2 \in {NilSlice, Slice(<<"a">>)}}}

\* The objects of the two documents.
DocObjects(old, new) ==
    LET tree(side) == IF side = "old" THEN old ELSE new
    IN  [r \in {Ref("doc", side, path) : side \in {"old"}, path \in DOMAIN FlattenSchema(old)}
              \cup {Ref("doc", side, path) : side \in {"new"}, path \in DOMAIN FlattenSchema(new)}
            |-> FlattenSchema(tree(r.side))[r.path]]

\* SchemaHas on a tree of ObjectTrees: the root, then its child if any.
WalkOf(side, tree) ==
    <<[side |-> side, path |-> "^"]>>
        \o (IF "spec" \in DOMAIN tree.Properties
            THEN <<[side |-> side, path |-> "^.spec"]>>
            ELSE <<>>)

ObjectInit ==
    /\ \E old \in ObjectTrees, new \in ObjectTrees :
          /\ hHeap = DocObjects(old, new)
          /\ hWalk = WalkOf("old", old) \o WalkOf("new", new)
    /\ hFlat = [side \in Sides |-> NoDiffs]
    /\ hTodo = {}
    /\ hDiffs = NoDiffs
    /\ hCur = FieldDiff(NilRef, NilRef)
    /\ hVals \in ChainValidations
    /\ hVi = 1
    /\ hHandled = FALSE
    /\ hPc = "flatten"

ObjectIdle ==
    /\ hHeap = NoObjects
    /\ hWalk = <<>>
    /\ hFlat = [side \in Sides |-> NoDiffs]
    /\ hTodo = {}
    /\ hDiffs = NoDiffs
    /\ hCur = FieldDiff(NilRef, NilRef)
    /\ hVals = <<>>
    /\ hVi = 1
    /\ hHandled = FALSE
    /\ hPc = "done"

\* FlattenSchema's callback on the next node: fieldMap[path] = s.DeepCopy().
\* flatOld is filled before flatNew; after both, CalculateFlatSchemaDiff
\* is to range over the paths of flatOld.
ObjectFlatten ==
    /\ hPc = "flatten"
    /\ hWalk # <<>>
    /\ LET w == Head(hWalk)
           r == DeepCopy(hHeap, Ref("doc", w.side, w.path), Ref("flat", w.side, w.path))
           flat == [hFlat EXCEPT ![w.side] = PutField(@, w.path, r.ptr)]
       IN  /\ hHeap' = r.heap
           /\ hFlat' = flat
           /\ hWalk' = Tail(hWalk)
           /\ IF Tail(hWalk) = <<>>
              THEN hPc' = "diff" /\ hTodo' = DOMAIN flat["old"]
              ELSE UNCHANGED <<hPc, hTodo>>
    /\ UNCHANGED <<hDiffs, hCur, hVals, hVi, hHandled>>
    /\ UNCHANGED notObject

\* One iteration of the loop of CalculateFlatSchemaDiff, on any path of
\* flatOld not ranged over yet.  A path new lacks returns the error, on
\* which Validate leaves the version.  Else both nodes are copied, the
\* copies lose their Properties and, if unequal, make the FieldDiff.
ObjectDiff ==
    /\ hPc = "diff"
    /\ \E field \in hTodo :
          IF field \notin DOMAIN hFlat["new"]
          THEN /\ hPc' = "done"
               /\ UNCHANGED <<hHeap, hTodo, hDiffs>>
          ELSE LET o == DeepCopy(hHeap, hFlat["old"][field], Ref("diff", "old", field))
                   n == DeepCopy(o.heap, hFlat["new"][field], Ref("diff", "new", field))
                   heap == SetPropertiesNil(SetPropertiesNil(n.heap, o.ptr), n.ptr)
               IN  /\ hHeap' = heap
                   /\ hDiffs' = IF ~DeepEqual(heap[o.ptr], heap[n.ptr])
                                 THEN PutField(hDiffs, field, FieldDiff(o.ptr, n.ptr))
                                 ELSE hDiffs
                   /\ hTodo' = hTodo \ {field}
                   /\ hPc' = IF hTodo \ {field} = {} THEN "fields" ELSE "diff"
    /\ UNCHANGED <<hWalk, hFlat, hCur, hVals, hVi, hHandled>>
    /\ UNCHANGED notObject

\* The head of the loop over diffs: any field not ranged over yet.
ObjectField ==
    /\ hPc = "fields"
    /\ \E field \in DOMAIN hDiffs :
          /\ hCur' = hDiffs[field]
          /\ hDiffs' = [f \in DOMAIN hDiffs \ {field} |-> hDiffs[f]]
    /\ hHandled' = FALSE
    /\ hVi' = 1
    /\ hPc' = "chain"
    /\ UNCHANGED <<hHeap, hWalk, hFlat, hTodo, hVals>>
    /\ UNCHANGED notObject

\* One iteration of the loop over cv.Validations: the validation reads the
\* two nodes diff.Old and diff.New point to and assigns to them.
ObjectInvoke ==
    /\ hPc = "chain"
    /\ ~hHandled
    /\ hVi <= Len(hVals)
    /\ LET r == ApplyValidation(hVals[hVi], FieldDiff(hHeap[hCur.Old], hHeap[hCur.New]))
       IN  /\ hHeap' = [hHeap EXCEPT ![hCur.Old] = r.diff.Old, ![hCur.New] = r.diff.New]
           /\ hHandled' = r.handled
           /\ hVi' = IF r.handled THEN hVi ELSE hVi + 1
    /\ UNCHANGED <<hWalk, hFlat, hTodo, hDiffs, hCur, hVals, hPc>>
    /\ UNCHANGED notObject

\* After the chain: back to the loop over diffs.
ObjectFieldEnd ==
    /\ hPc = "chain"
    /\ hHandled \/ hVi > Len(hVals)
    /\ hPc' = "fields"
    /\ UNCHANGED <<hHeap, hWalk, hFlat, hTodo, hDiffs, hCur, hVals, hVi, hHandled>>
    /\ UNCHANGED notObject

\* No diff is left: Validate returns.
ObjectReturn ==
    /\ hPc = "fields"
    /\ DOMAIN hDiffs = {}
    /\ hPc' = "done"
    /\ UNCHANGED <<hHeap, hWalk, hFlat, hTodo, hDiffs, hCur, hVals, hVi, hHandled>>
    /\ UNCHANGED notObject

(***************************************************************************)
(* permissions.Preflight.                                                  *)
(***************************************************************************)
PermissionValidatorTypeSelfSubjectAccessReview == "SelfSubjectAccessReview"
PermissionValidatorTypeSelfSubjectRulesReview == "SelfSubjectRulesReview"

\* A preflight.CheckConfig is an untyped bag.  Of its keys only
\* permissionValidatorResource is read; it is absent, a string or a value of
\* another JSON type.
AbsentValue == [type |-> "absent", value |-> ""]
StringValue(s) == [type |-> "string", value |-> s]
NumberValue == [type |-> "number", value |-> "42"]

\* json.Marshal(cfg) then json.Unmarshal into a PreflightConfig: the string
\* under the key, "" when the key is absent, an error for any other type.
ParseConfig(cfg) ==
    CASE cfg.type = "absent" -> [err |-> NoErr, PermissionValidatorResource |-> ""]
      [] cfg.type = "string" -> [err |-> NoErr, PermissionValidatorResource |-> cfg.value]
      [] OTHER -> [err |-> Err("parsing permissions preflight config", {}),
                   PermissionValidatorResource |-> ""]

\* CheckValidatorResource with no default case: every name passes.
CheckValidatorResourceNoDefault(name) ==
    CASE name = "" ->
            [err |-> NoErr,
             PermissionValidatorResource |-> PermissionValidatorTypeSelfSubjectAccessReview]
      [] OTHER ->
            [err |-> NoErr, PermissionValidatorResource |-> name]

\* SetConfig's switch on pCfg.PermissionValidatorResource: the error it
\* returns and the value pCfg holds when it returns.
CheckValidatorResource(name) ==
    CASE name \in {PermissionValidatorTypeSelfSubjectAccessReview,
                   PermissionValidatorTypeSelfSubjectRulesReview} ->
            [err |-> NoErr, PermissionValidatorResource |-> name]
      [] name = "" ->
            [err |-> NoErr,
             PermissionValidatorResource |-> PermissionValidatorTypeSelfSubjectAccessReview]
      [] OTHER ->
            [err |-> Err("unknown permissionValidatorType", {name}),
             PermissionValidatorResource |-> name]

\* What SetConfig returns and what it leaves in p.config, given the config
\* p holds: pCfg is a local that is validated and then dropped.
SetConfigResult(config, cfg) ==
    LET parsed == ParseConfig(cfg)
    IN  IF parsed.err # NoErr
        THEN [err |-> parsed.err, config |-> config]
        ELSE [err |-> CheckValidatorResource(parsed.PermissionValidatorResource).err,
              config |-> config]

\* The PermissionValidator Run's switch on p.config builds; no case matches
\* any other name and the interface stays nil.
SelectPermissionValidator(config) ==
    CASE config = PermissionValidatorTypeSelfSubjectAccessReview -> "SelfSubjectAccessReviewValidator"
      [] config = PermissionValidatorTypeSelfSubjectRulesReview -> "SelfSubjectRulesReviewValidator"
      [] OTHER -> "nil"

\* The verbs Run checks for a change, in order.
VerbsFor(op) ==
    CASE op = "delete" -> <<"delete">>
      [] op = "upsert" -> <<"create", "update">>
      [] OTHER -> <<>>

\* authv1.ResourceAttributes
ResourceAttributes(group, version, resource, namespace, verb) ==
    [Group |-> group, Version |-> version, Resource |-> resource,
     Namespace |-> namespace, Verb |-> verb]

\* schema.GroupVersionResource{Group, Version, Resource}.String()
GVRString(resourceAttrib) ==
    resourceAttrib.Group \o "/" \o resourceAttrib.Version \o ", Resource=" \o resourceAttrib.Resource

\* SelfSubjectAccessReviewValidator.ValidatePermissions: one Create call; resp is
\* what it gave back.
SSARResponses ==
    {[createErr |-> TRUE, isNil |-> TRUE, EvaluationError |-> "", Allowed |-> FALSE],
     [createErr |-> FALSE, isNil |-> TRUE, EvaluationError |-> "", Allowed |-> FALSE]}
    \cup [createErr : {FALSE}, isNil : {FALSE}, EvaluationError : {"", "boom"}, Allowed : BOOLEAN]

\* SSARValidatePermissions passing an allowed response whatever its
\* evaluation error.
SSARValidatePermissionsAllowedWins(resourceAttrib, resp) ==
    CASE resp.createErr -> Err("create failed", {})
      [] resp.isNil -> Err("returned SelfSubjectAccessReview is nil", {})
      [] resp.Allowed -> NoErr
      [] resp.EvaluationError # "" -> Err("unable to validate permissions", {resp.EvaluationError})
      [] OTHER -> Err("not permitted", {resourceAttrib.Verb, GVRString(resourceAttrib)})

SSARValidatePermissions(resourceAttrib, resp) ==
    CASE resp.createErr -> Err("create failed", {})
      [] resp.isNil -> Err("returned SelfSubjectAccessReview is nil", {})
      [] resp.EvaluationError # "" -> Err("unable to validate permissions", {resp.EvaluationError})
      [] ~resp.Allowed -> Err("not permitted", {resourceAttrib.Verb, GVRString(resourceAttrib)})
      [] OTHER -> NoErr

(***************************************************************************)
(* Specification SpecDirect: ValidatePermissions calls on one              *)
(* SelfSubjectAccessReviewValidator, a step for the Create call and a step *)
(* for the rest of the function.                                           *)
(***************************************************************************)
Verbs == {"create", "delete"}
Namespaces == {"", "default", "ns1"}

DirectAttributes ==
    {ResourceAttributes(gr[1], "v1", gr[2], "ns1", verb) :
        gr \in {<<"apps", "deployments">>, <<"", "pods">>}, verb \in Verbs}

NoDirectCall ==
    [attrib |-> ResourceAttributes("", "", "", "", ""),
     resp |-> [createErr |-> FALSE, isNil |-> TRUE, EvaluationError |-> "", Allowed |-> FALSE]]

\* NewSelfSubjectAccessReviewValidator(ssarClient)
DirectInit ==
    /\ aQueries = <<>>
    /\ aCur = NoDirectCall
    /\ aLog = <<>>
    /\ aPc = "idle"

DirectIdle == DirectInit

\* ValidatePermissions up to the return of rv.ssarClient.Create.
DirectCreate(resourceAttrib, resp) ==
    /\ aPc = "idle"
    /\ Len(aLog) < MaxCalls
    /\ aQueries' = Append(aQueries, resourceAttrib)
    /\ aCur' = [attrib |-> resourceAttrib, resp |-> resp]
    /\ aPc' = "created"
    /\ UNCHANGED aLog
    /\ UNCHANGED notDirect

\* The checks on err and retSsar, and the return.
DirectReturn ==
    /\ aPc = "created"
    /\ aLog' = Append(aLog, [attrib |-> aCur.attrib, resp |-> aCur.resp,
                             err |-> SSARValidatePermissions(aCur.attrib, aCur.resp),
                             queries |-> Len(aQueries)])
    /\ aCur' = NoDirectCall
    /\ aPc' = "idle"
    /\ UNCHANGED aQueries
    /\ UNCHANGED notDirect

(***************************************************************************)
(* SelfSubjectRulesReviewValidator.  A rule is an rbacv1.PolicyRule with   *)
(* its Verbs, APIGroups, Resources and NonResourceURLs as sets.            *)
(***************************************************************************)
PolicyRule(verbs, apiGroups, resources, nonResourceURLs) ==
    [Verbs |-> verbs, APIGroups |-> apiGroups, Resources |-> resources,
     NonResourceURLs |-> nonResourceURLs]

\* rbacauthorizer.RulesAllow for a resource request: some rule matches the
\* verb, the API group and the resource, "*" matching any.
RuleAllows(resourceAttrib, rule) ==
    /\ ("*" \in rule.Verbs \/ resourceAttrib.Verb \in rule.Verbs)
    /\ ("*" \in rule.APIGroups \/ resourceAttrib.Group \in rule.APIGroups)
    /\ ("*" \in rule.Resources \/ resourceAttrib.Resource \in rule.Resources)

RulesAllow(resourceAttrib, rules) ==
    \E i \in DOMAIN rules : RuleAllows(resourceAttrib, rules[i])

\* The namespace taken as it comes.
NormalizeNamespaceAsGiven(namespace) == namespace

\* The empty namespace stands for "default".
NormalizeNamespace(namespace) == IF namespace = "" THEN "default" ELSE namespace

\* ns := resourceAttrib.Namespace; if ns == "" { ns = "default" }
CacheKey(resourceAttrib) == NormalizeNamespace(resourceAttrib.Namespace)

\* The two loops over ssrr.Status: the resource rules, then the
\* non-resource rules, each turned into a PolicyRule.
RulesOf(ssrr) ==
    [i \in DOMAIN ssrr.ResourceRules |->
        PolicyRule(ssrr.ResourceRules[i].Verbs, ssrr.ResourceRules[i].APIGroups,
                   ssrr.ResourceRules[i].Resources, {})]
    \o [i \in DOMAIN ssrr.NonResourceRules |->
        PolicyRule(ssrr.NonResourceRules[i].Verbs, {}, {},
                   ssrr.NonResourceRules[i].NonResourceURLs)]

\* The last part of ValidatePermissions: the rules of the namespace decide.
SSRREvaluate(resourceAttrib, rules) ==
    IF ~RulesAllow(resourceAttrib, rules)
    THEN Err("not permitted", {resourceAttrib.Verb, GVRString(resourceAttrib)})
    ELSE NoErr

(***************************************************************************)
(* Specification SpecCached: ValidatePermissions calls made on one         *)
(* SelfSubjectRulesReviewValidator by callers that may run concurrently.   *)
(* A call takes a step to get the lock and look the namespace up (sending  *)
(* the bulk query on a miss), a step for the answer of the query, and a    *)
(* step to evaluate the rules; the deferred Unlock is part of the step     *)
(* that returns.                                                           *)
(***************************************************************************)
Callers == {"c1", "c2"}

CachedAttributes ==
    {ResourceAttributes("apps", "v1", "deployments", namespace, verb) :
        namespace \in Namespaces, verb \in Verbs}

NoRules == [ResourceRules |-> <<>>, NonResourceRules |-> <<>>]
SomeRules ==
    [ResourceRules |-> <<[Verbs |-> {"create"}, APIGroups |-> {"apps"}, Resources |-> {"*"}]>>,
     NonResourceRules |-> <<[Verbs |-> {"*"}, NonResourceURLs |-> {"*"}]>>]

\* What ssrrClient.Create gives back: an error, or a review whose status is
\* incomplete or not, with its rules.
SSRRResponses ==
    {[createErr |-> TRUE, Incomplete |-> FALSE, Status |-> NoRules]} \cup
    [createErr : {FALSE}, Incomplete : BOOLEAN, Status : {NoRules, SomeRules}]

NoCache == [x \in {} |-> x]

\* NewSelfSubjectRulesReviewValidator(ssrrClient)
CachedInit ==
    /\ kCache = NoCache
    /\ kMu = "free"
    /\ kPc = [c \in Callers |-> "idle"]
    /\ kAttr = [c \in Callers |-> ResourceAttributes("", "", "", "", "")]
    /\ kFetched = [c \in Callers |-> "none"]
    /\ kFetches = <<>>
    /\ kLog = <<>>
    /\ kStarted = 0

CachedIdle == CachedInit

\* A caller calls ValidatePermissions and comes to rv.mu.Lock().
CachedCall(c, resourceAttrib) ==
    /\ kPc[c] = "idle"
    /\ kStarted < MaxCalls
    /\ kStarted' = kStarted + 1
    /\ kPc' = [kPc EXCEPT ![c] = "lock"]
    /\ kAttr' = [kAttr EXCEPT ![c] = resourceAttrib]
    /\ kFetched' = [kFetched EXCEPT ![c] = "none"]
    /\ UNCHANGED <<kCache, kMu, kFetches, kLog>>
    /\ UNCHANGED notCached

\* CachedLock taking the lock whoever holds it.
CachedLockNoWait(c) ==
    /\ UNCHANGED notCached
    /\ kPc[c] = "lock"
    /\ kMu' = c
    /\ LET ns == CacheKey(kAttr[c])
       IN  IF ns \in DOMAIN kCache
           THEN /\ kPc' = [kPc EXCEPT ![c] = "eval"]
                /\ UNCHANGED <<kFetches, kFetched>>
           ELSE /\ kPc' = [kPc EXCEPT ![c] = "fetching"]
                /\ kFetched' = [kFetched EXCEPT ![c] = "pending"]
                /\ kFetches' = Append(kFetches, [ns |-> ns, caller |-> c,
                                                 status |-> "pending", rules |-> <<>>])
    /\ UNCHANGED <<kCache, kAttr, kLog, kStarted>>

\* CachedLock sending the bulk query whatever the cache holds.
CachedLockAlwaysFetch(c) ==
    /\ UNCHANGED notCached
    /\ kPc[c] = "lock"
    /\ kMu = "free"
    /\ kMu' = c
    /\ LET ns == CacheKey(kAttr[c])
       IN  /\ kPc' = [kPc EXCEPT ![c] = "fetching"]
           /\ kFetched' = [kFetched EXCEPT ![c] = "pending"]
           /\ kFetches' = Append(kFetches, [ns |-> ns, caller |-> c,
                                            status |-> "pending", rules |-> <<>>])
    /\ UNCHANGED <<kCache, kAttr, kLog, kStarted>>

\* The lock is free: the caller takes it, normalizes the namespace and looks
\* it up in the cache; on a miss it sends the SelfSubjectRulesReview.
CachedLock(c) ==
    /\ kPc[c] = "lock"
    /\ kMu = "free"
    /\ kMu' = c
    /\ LET ns == CacheKey(kAttr[c])
       IN  IF ns \in DOMAIN kCache
           THEN /\ kPc' = [kPc EXCEPT ![c] = "eval"]
                /\ UNCHANGED <<kFetches, kFetched>>
           ELSE /\ kPc' = [kPc EXCEPT ![c] = "fetching"]
                /\ kFetched' = [kFetched EXCEPT ![c] = "pending"]
                /\ kFetches' = Append(kFetches, [ns |-> ns, caller |-> c,
                                                 status |-> "pending", rules |-> <<>>])
    /\ UNCHANGED <<kCache, kAttr, kLog, kStarted>>
    /\ UNCHANGED notCached

\* The query of caller c that has no answer yet.
PendingFetch(c) ==
    CHOOSE i \in DOMAIN kFetches : kFetches[i].caller = c /\ kFetches[i].status = "pending"

\* The record of a call that returned.
CallRecord(c, fetch, evaluated, rules, err) ==
    [caller |-> c, attrib |-> kAttr[c], ns |-> CacheKey(kAttr[c]), fetch |-> fetch,
     evaluated |-> evaluated, rules |-> rules, err |-> err]

\* CachedFetched storing the rules of an incomplete review like any other.
CachedFetchedIgnoreIncomplete(c, resp) ==
    /\ UNCHANGED notCached
    /\ kPc[c] = "fetching"
    /\ LET i == PendingFetch(c)
           ns == CacheKey(kAttr[c])
       IN  IF resp.createErr
           THEN /\ kFetches' = [kFetches EXCEPT ![i].status = "failed"]
                /\ kFetched' = [kFetched EXCEPT ![c] = "failed"]
                /\ kLog' = Append(kLog, CallRecord(c, "failed", FALSE, <<>>,
                                      Err("creating selfsubjectrulesreview", {})))
                /\ kPc' = [kPc EXCEPT ![c] = "idle"]
                /\ kMu' = "free"
                /\ UNCHANGED kCache
           ELSE /\ kFetches' = [kFetches EXCEPT
                                   ![i].status = IF resp.Incomplete THEN "incomplete" ELSE "ok",
                                   ![i].rules = RulesOf(resp.Status)]
                /\ kFetched' = [kFetched EXCEPT
                                   ![c] = IF resp.Incomplete THEN "incomplete" ELSE "ok"]
                /\ kCache' = [x \in DOMAIN kCache \cup {ns} |->
                                 IF x = ns THEN RulesOf(resp.Status) ELSE kCache[x]]
                /\ kPc' = [kPc EXCEPT ![c] = "eval"]
                /\ UNCHANGED <<kLog, kMu>>
    /\ UNCHANGED <<kAttr, kStarted>>

\* CachedFetched with the rules stored before the review is tested for
\* being incomplete.
CachedFetchedStoreFirst(c, resp) ==
    /\ UNCHANGED notCached
    /\ kPc[c] = "fetching"
    /\ LET i == PendingFetch(c)
           ns == CacheKey(kAttr[c])
       IN  CASE resp.createErr ->
                /\ kFetches' = [kFetches EXCEPT ![i].status = "failed"]
                /\ kFetched' = [kFetched EXCEPT ![c] = "failed"]
                /\ kLog' = Append(kLog, CallRecord(c, "failed", FALSE, <<>>,
                                      Err("creating selfsubjectrulesreview", {})))
                /\ kPc' = [kPc EXCEPT ![c] = "idle"]
                /\ kMu' = "free"
                /\ UNCHANGED kCache
             [] ~resp.createErr /\ resp.Incomplete ->
                /\ kFetches' = [kFetches EXCEPT ![i].status = "incomplete",
                                                ![i].rules = RulesOf(resp.Status)]
                /\ kFetched' = [kFetched EXCEPT ![c] = "incomplete"]
                /\ kLog' = Append(kLog, CallRecord(c, "incomplete", FALSE, <<>>,
                                      Err("selfsubjectrulesreview is incomplete", {})))
                /\ kPc' = [kPc EXCEPT ![c] = "idle"]
                /\ kMu' = "free"
                /\ kCache' = [x \in DOMAIN kCache \cup {ns} |->
                                 IF x = ns THEN RulesOf(resp.Status) ELSE kCache[x]]
             [] OTHER ->
                /\ kFetches' = [kFetches EXCEPT ![i].status = "ok",
                                                ![i].rules = RulesOf(resp.Status)]
                /\ kFetched' = [kFetched EXCEPT ![c] = "ok"]
                /\ kCache' = [x \in DOMAIN kCache \cup {ns} |->
                                 IF x = ns THEN RulesOf(resp.Status) ELSE kCache[x]]
                /\ kPc' = [kPc EXCEPT ![c] = "eval"]
                /\ UNCHANGED <<kLog, kMu>>
    /\ UNCHANGED <<kAttr, kStarted>>

\* ssrrClient.Create has returned: an error or an incomplete review ends
\* the call with an error (the deferred Unlock runs); otherwise the rules of
\* the review are stored under the namespace.
CachedFetched(c, resp) ==
    /\ kPc[c] = "fetching"
    /\ LET i == PendingFetch(c)
           ns == CacheKey(kAttr[c])
       IN  CASE resp.createErr ->
                /\ kFetches' = [kFetches EXCEPT ![i].status = "failed"]
                /\ kFetched' = [kFetched EXCEPT ![c] = "failed"]
                /\ kLog' = Append(kLog, CallRecord(c, "failed", FALSE, <<>>,
                                      Err("creating selfsubjectrulesreview", {})))
                /\ kPc' = [kPc EXCEPT ![c] = "idle"]
                /\ kMu' = "free"
                /\ UNCHANGED kCache
             [] ~resp.createErr /\ resp.Incomplete ->
                /\ kFetches' = [kFetches EXCEPT ![i].status = "incomplete",
                                                ![i].rules = RulesOf(resp.Status)]
                /\ kFetched' = [kFetched EXCEPT ![c] = "incomplete"]
                /\ kLog' = Append(kLog, CallRecord(c, "incomplete", FALSE, <<>>,
                                      Err("selfsubjectrulesreview is incomplete", {})))
                /\ kPc' = [kPc EXCEPT ![c] = "idle"]
                /\ kMu' = "free"
                /\ UNCHANGED kCache
             [] OTHER ->
                /\ kFetches' = [kFetches EXCEPT ![i].status = "ok",
                                                ![i].rules = RulesOf(resp.Status)]
                /\ kFetched' = [kFetched EXCEPT ![c] = "ok"]
                /\ kCache' = [x \in DOMAIN kCache \cup {ns} |->
                                 IF x = ns THEN RulesOf(resp.Status) ELSE kCache[x]]
                /\ kPc' = [kPc EXCEPT ![c] = "eval"]
                /\ UNCHANGED <<kLog, kMu>>
    /\ UNCHANGED <<kAttr, kStarted>>
    /\ UNCHANGED notCached

\* rules := rv.cache[ns], RulesAllow, return (the deferred Unlock runs).
CachedEval(c) ==
    /\ kPc[c] = "eval"
    /\ LET rules == kCache[CacheKey(kAttr[c])]
       IN  kLog' = Append(kLog, CallRecord(c, kFetched[c], TRUE, rules, SSRREvaluate(kAttr[c], rules)))
    /\ kPc' = [kPc EXCEPT ![c] = "idle"]
    /\ kMu' = "free"
    /\ UNCHANGED <<kCache, kAttr, kFetched, kFetches, kStarted>>
    /\ UNCHANGED notCached

(***************************************************************************)
(* RulesForBinding, RulesForRoleBinding, RulesForClusterRoleBinding.  The  *)
(* rules of a Role or ClusterRole are stood for by the object they come    *)
(* from; nil is the nil slice returned with an error.                      *)
(***************************************************************************)
NilRules == [kind |-> "nil", namespace |-> "", name |-> ""]
RoleRules(namespace, name) == [kind |-> "Role", namespace |-> namespace, name |-> name]
ClusterRoleRules(name) == [kind |-> "ClusterRole", namespace |-> "", name |-> name]

\* rbacClient.Roles(namespace).Get(ctx, name): the Role, or an error.
GetRole(roles, namespace, name) ==
    IF <<namespace, name>> \in roles
    THEN [rules |-> RoleRules(namespace, name), err |-> NoErr]
    ELSE [rules |-> NilRules, err |-> Err("fetching Role", {name})]

\* rbacClient.ClusterRoles().Get(ctx, name): the ClusterRole, or an error.
GetClusterRole(clusterRoles, name) ==
    IF name \in clusterRoles
    THEN [rules |-> ClusterRoleRules(name), err |-> NoErr]
    ELSE [rules |-> NilRules, err |-> Err("fetching ClusterRole", {name})]

\* RulesForRoleBinding: the switch on rb.RoleRef.Kind.
RulesForRoleBinding(roles, clusterRoles, rb) ==
    CASE rb.RoleRef.Kind = "ClusterRole" -> GetClusterRole(clusterRoles, rb.RoleRef.Name)
      [] rb.RoleRef.Kind = "Role" -> GetRole(roles, rb.Namespace, rb.RoleRef.Name)
      [] OTHER -> [rules |-> NilRules, err |-> Err("unknown role reference kind", {rb.RoleRef.Kind})]

\* RulesForClusterRoleBinding: the ClusterRole named by crb.RoleRef.Name,
\* whatever crb.RoleRef.Kind says.
RulesForClusterRoleBinding(clusterRoles, crb) == GetClusterRole(clusterRoles, crb.RoleRef.Name)

(***************************************************************************)
(* Specification SpecBinding: RulesForBinding on a resource, a step for    *)
(* its switch on the kind and a step for the function it hands over to.    *)
(***************************************************************************)
ResourceKinds == {"RoleBinding", "ClusterRoleBinding", "Deployment"}
RoleRefKinds == {"Role", "ClusterRole", "Group"}
BindingNamespaces == {"default", "ns1"}

BindingResources ==
    [Kind : ResourceKinds, typed : BOOLEAN, Namespace : BindingNamespaces,
     RoleRef : [Kind : RoleRefKinds, Name : {"admin"}]]

NoReturn == [rules |-> NilRules, err |-> NoErr]

BindingInit ==
    /\ bRes \in BindingResources
    /\ bRoles \in SUBSET (BindingNamespaces \X {"admin"})
    /\ bClusterRoles \in SUBSET {"admin"}
    /\ bGets = <<>>
    /\ bRet = NoReturn
    /\ bPc = "start"

BindingIdle ==
    /\ bRes = [Kind |-> "Deployment", typed |-> FALSE, Namespace |-> "default",
               RoleRef |-> [Kind |-> "Role", Name |-> "admin"]]
    /\ bRoles = {}
    /\ bClusterRoles = {}
    /\ bGets = <<>>
    /\ bRet = NoReturn
    /\ bPc = "done"

\* RulesForBinding: the switch on res.Kind() and the conversion to the
\* typed object.
BindingSwitch ==
    /\ bPc = "start"
    /\ IF bRes.Kind \in {"RoleBinding", "ClusterRoleBinding"}
       THEN IF bRes.typed
            THEN /\ bPc' = bRes.Kind
                 /\ UNCHANGED bRet
            ELSE /\ bPc' = "done"
                 /\ bRet' = [rules |-> NilRules,
                             err |-> Err("converting resource to typed object", {bRes.Kind})]
       ELSE /\ bPc' = "done"
            /\ bRet' = [rules |-> NilRules, err |-> Err("unknown binding kind", {bRes.Kind})]
    /\ UNCHANGED <<bRes, bRoles, bClusterRoles, bGets>>
    /\ UNCHANGED notBinding

\* return RulesForRoleBinding(ctx, rbacClient, roleBinding)
BindingRoleBinding ==
    /\ bPc = "RoleBinding"
    /\ bRet' = RulesForRoleBinding(bRoles, bClusterRoles, bRes)
    /\ bGets' = IF bRes.RoleRef.Kind \in {"Role", "ClusterRole"}
                THEN Append(bGets, [kind |-> bRes.RoleRef.Kind,
                                    namespace |-> IF bRes.RoleRef.Kind = "Role"
                                                  THEN bRes.Namespace ELSE "",
                                    name |-> bRes.RoleRef.Name])
                ELSE bGets
    /\ bPc' = "done"
    /\ UNCHANGED <<bRes, bRoles, bClusterRoles>>
    /\ UNCHANGED notBinding

\* return RulesForClusterRoleBinding(ctx, rbacClient, roleBinding)
BindingClusterRoleBinding ==
    /\ bPc = "ClusterRoleBinding"
    /\ bRet' = RulesForClusterRoleBinding(bClusterRoles, bRes)
    /\ bGets' = Append(bGets, [kind |-> "ClusterRole", namespace |-> "",
                               name |-> bRes.RoleRef.Name])
    /\ bPc' = "done"
    /\ UNCHANGED <<bRes, bRoles, bClusterRoles>>
    /\ UNCHANGED notBinding

(***************************************************************************)
(* Specification SpecPreflight: a Preflight from NewPreflight, then any    *)
(* sequence of SetEnabled, SetConfig and Run calls; Run takes one step per *)
(* validator.Validate call.                                                *)
(***************************************************************************)
CheckConfigs ==
    {AbsentValue, NumberValue} \cup
    {StringValue(s) : s \in {"", PermissionValidatorTypeSelfSubjectAccessReview,
                             PermissionValidatorTypeSelfSubjectRulesReview, "Bogus"}}

ChangeOps == {"delete", "upsert", "noop"}

\* What the authorization queries of a Run answer: the call fails (or is
\* cancelled), a deny, an allow.
RunResponses ==
    {resp \in SSARResponses : resp.createErr \/ (~resp.isNil /\ resp.EvaluationError = "")}

NoCall == [op |-> "NewPreflight", cfg |-> AbsentValue, err |-> NoErr]
NotAccepted == [set |-> FALSE, name |-> ""]

RunIdle ==
    /\ rPc = "idle"
    /\ rStrategy = "none"
    /\ rChanges = <<>>
    /\ rIdx = 1
    /\ rVerbs = <<>>
    /\ rChecks = <<>>
    /\ rErrorSet = <<>>
    /\ rRet = NoErr

runVars == <<rPc, rStrategy, rChanges, rIdx, rVerbs, rChecks, rErrorSet, rRet>>

\* NewPreflight(depsFactory, enabled)
PreflightInit ==
    /\ pEnabled \in BOOLEAN
    /\ pConfig = PermissionValidatorTypeSelfSubjectAccessReview
    /\ pCall = NoCall
    /\ pAccepted = NotAccepted
    /\ RunIdle

PreflightIdle ==
    /\ pEnabled = FALSE
    /\ pConfig = PermissionValidatorTypeSelfSubjectAccessReview
    /\ pCall = NoCall
    /\ pAccepted = NotAccepted
    /\ RunIdle

SetEnabled(enabled) ==
    /\ rPc = "idle"
    /\ pEnabled' = enabled
    /\ pCall' = [op |-> "SetEnabled", cfg |-> AbsentValue, err |-> NoErr]
    /\ UNCHANGED <<pConfig, pAccepted, runVars>>
    /\ UNCHANGED notPreflight

SetConfig(cfg) ==
    /\ rPc = "idle"
    /\ LET r == SetConfigResult(pConfig, cfg)
       IN  /\ pConfig' = r.config
           /\ pCall' = [op |-> "SetConfig", cfg |-> cfg, err |-> r.err]
           /\ pAccepted' = IF r.err = NoErr
                           THEN [set |-> TRUE, name |-> ParseConfig(cfg).PermissionValidatorResource]
                           ELSE pAccepted
    /\ UNCHANGED <<pEnabled, runVars>>
    /\ UNCHANGED notPreflight

\* Run up to its loop: the clients, the PermissionValidator, the validators.
RunBegin ==
    /\ rPc = "idle"
    /\ pCall' = [op |-> "Run", cfg |-> AbsentValue, err |-> NoErr]
    /\ rChecks' = <<>>
    /\ rErrorSet' = <<>>
    /\ rIdx' = 1
    /\ \E depsErr \in BOOLEAN, changes \in SeqsUpTo(ChangeOps, MaxChanges) :
        IF depsErr
        THEN /\ rPc' = "returned"
             /\ rRet' = Err("deps", {})
             /\ rStrategy' = "none"
             /\ rChanges' = <<>>
             /\ rVerbs' = <<>>
        ELSE /\ rPc' = "checking"
             /\ rRet' = NoErr
             /\ rStrategy' = SelectPermissionValidator(pConfig)
             /\ rChanges' = changes
             /\ rVerbs' = IF changes = <<>> THEN <<>> ELSE VerbsFor(changes[1])
    /\ UNCHANGED <<pEnabled, pConfig, pAccepted>>
    /\ UNCHANGED notPreflight

\* validator.Validate(ctx, resource, verb) on a resource of no registered
\* kind: the basic validator, one ValidatePermissions call for the verb.
ValidatorValidate(verb, resp) ==
    SSARValidatePermissions(ResourceAttributes("apps", "v1", "deployments", "default", verb), resp)

\* RunCheck giving up the remaining verbs of a change once a check of it
\* has failed.
RunCheckSkipRestOnFailure ==
    /\ UNCHANGED notPreflight
    /\ rPc = "checking"
    /\ rIdx <= Len(rChanges)
    /\ rVerbs # <<>>
    /\ rStrategy = "SelfSubjectAccessReviewValidator"
    /\ \E resp \in RunResponses :
        LET err == ValidatorValidate(Head(rVerbs), resp)
        IN  /\ rChecks' = Append(rChecks, [change |-> rIdx, verb |-> Head(rVerbs),
                                           strategy |-> rStrategy, err |-> err])
            /\ rErrorSet' = IF err # NoErr THEN Append(rErrorSet, err) ELSE rErrorSet
            /\ rVerbs' = IF err # NoErr THEN <<>> ELSE Tail(rVerbs)
    /\ UNCHANGED <<pEnabled, pConfig, pCall, pAccepted, rPc, rStrategy, rChanges, rIdx, rRet>>

\* One validator.Validate(ctx, resource, verb) call of Run's loop, backed by
\* the direct strategy.
RunCheck ==
    /\ rPc = "checking"
    /\ rIdx <= Len(rChanges)
    /\ rVerbs # <<>>
    /\ rStrategy = "SelfSubjectAccessReviewValidator"
    /\ \E resp \in RunResponses :
        LET err == ValidatorValidate(Head(rVerbs), resp)
        IN  /\ rChecks' = Append(rChecks, [change |-> rIdx, verb |-> Head(rVerbs),
                                           strategy |-> rStrategy, err |-> err])
            /\ rErrorSet' = IF err # NoErr THEN Append(rErrorSet, err) ELSE rErrorSet
    /\ rVerbs' = Tail(rVerbs)
    /\ UNCHANGED <<pEnabled, pConfig, pCall, pAccepted, rPc, rStrategy, rChanges, rIdx, rRet>>
    /\ UNCHANGED notPreflight

\* The next change of the graph.
RunNextChange ==
    /\ rPc = "checking"
    /\ rIdx <= Len(rChanges)
    /\ rVerbs = <<>>
    /\ rIdx' = rIdx + 1
    /\ rVerbs' = IF rIdx + 1 <= Len(rChanges) THEN VerbsFor(rChanges[rIdx + 1]) ELSE <<>>
    /\ UNCHANGED <<pEnabled, pConfig, pCall, pAccepted, rPc, rStrategy, rChanges,
                   rChecks, rErrorSet, rRet>>
    /\ UNCHANGED notPreflight

\* RunResult keeping the first error of errorSet only.
RunResultFirstOnly(errorSet) ==
    IF Len(errorSet) > 0 THEN [kind |-> "joined", values |-> {errorSet[1]}] ELSE NoErr

RunResult(errorSet) == IF Len(errorSet) > 0 THEN [kind |-> "joined", values |-> Range(errorSet)] ELSE NoErr

RunReturn ==
    /\ rPc = "checking"
    /\ rIdx > Len(rChanges)
    /\ rRet' = RunResult(rErrorSet)
    /\ rPc' = "returned"
    /\ pCall' = [op |-> "Run", cfg |-> AbsentValue, err |-> RunResult(rErrorSet)]
    /\ UNCHANGED <<pEnabled, pConfig, pAccepted, rStrategy, rChanges, rIdx, rVerbs,
                   rChecks, rErrorSet>>
    /\ UNCHANGED notPreflight

\* The caller has Run's result; Run's locals are gone with its frame.
RunDone ==
    /\ rPc = "returned"
    /\ rPc' = "idle"
    /\ rStrategy' = "none"
    /\ rChanges' = <<>>
    /\ rIdx' = 1
    /\ rVerbs' = <<>>
    /\ rChecks' = <<>>
    /\ rErrorSet' = <<>>
    /\ rRet' = NoErr
    /\ UNCHANGED <<pEnabled, pConfig, pCall, pAccepted>>
    /\ UNCHANGED notPreflight

(***************************************************************************)
(* The specifications.                                                     *)
(***************************************************************************)
InitValidation == ValidationInit /\ DiffIdle /\ ValidateIdle /\ PreflightIdle /\ FlattenIdle /\ DirectIdle /\ CachedIdle /\ BindingIdle /\ ObjectIdle

NextValidation == CallEnumChangeValidation \/ CallRequiredFieldChangeValidation

SpecValidation == InitValidation /\ [][NextValidation]_vars

InitDiff == ValidationIdle /\ DiffInit /\ ValidateIdle /\ PreflightIdle /\ FlattenIdle /\ DirectIdle /\ CachedIdle /\ BindingIdle /\ ObjectIdle

NextDiff == DiffStep \/ DiffReturn

SpecDiff == InitDiff /\ [][NextDiff]_vars

InitValidate == ValidationIdle /\ DiffIdle /\ ValidateInit /\ PreflightIdle /\ FlattenIdle /\ DirectIdle /\ CachedIdle /\ BindingIdle /\ ObjectIdle

NextValidate ==
    \/ ValidateVersion
    \/ ValidateField
    \/ ValidateInvoke
    \/ ValidateFieldEnd
    \/ ValidateVersionEnd
    \/ ValidateReturn

SpecValidate == InitValidate /\ [][NextValidate]_vars

InitChain == ValidationIdle /\ DiffIdle /\ ChainInit /\ PreflightIdle /\ FlattenIdle /\ DirectIdle /\ CachedIdle /\ BindingIdle /\ ObjectIdle

NextChain ==
    \/ ValidateVersion
    \/ ValidateField
    \/ ValidateInvoke
    \/ ValidateFieldEnd
    \/ ValidateVersionEnd
    \/ ValidateReturn

SpecChain == InitChain /\ [][NextChain]_vars

InitObjects == ValidationIdle /\ DiffIdle /\ ValidateIdle /\ PreflightIdle /\ FlattenIdle /\ DirectIdle /\ CachedIdle /\ BindingIdle /\ ObjectInit

NextObjects ==
    \/ ObjectFlatten
    \/ ObjectDiff
    \/ ObjectField
    \/ ObjectInvoke
    \/ ObjectFieldEnd
    \/ ObjectReturn

SpecObjects == InitObjects /\ [][NextObjects]_vars

InitPreflight == ValidationIdle /\ DiffIdle /\ ValidateIdle /\ PreflightInit /\ FlattenIdle /\ DirectIdle /\ CachedIdle /\ BindingIdle /\ ObjectIdle

NextPreflight ==
    \/ \E enabled \in BOOLEAN : SetEnabled(enabled)
    \/ \E cfg \in CheckConfigs : SetConfig(cfg)
    \/ RunBegin
    \/ RunCheck
    \/ RunNextChange
    \/ RunReturn
    \/ RunDone

SpecPreflight == InitPreflight /\ [][NextPreflight]_vars

InitFlatten == ValidationIdle /\ DiffIdle /\ ValidateIdle /\ PreflightIdle /\ FlattenInit /\ DirectIdle /\ CachedIdle /\ BindingIdle /\ ObjectIdle

NextFlatten == FlattenRoot \/ FlattenChild \/ FlattenUp \/ FlattenReturn

SpecFlatten == InitFlatten /\ [][NextFlatten]_vars

InitDirect == ValidationIdle /\ DiffIdle /\ ValidateIdle /\ PreflightIdle /\ FlattenIdle /\ DirectInit /\ CachedIdle /\ BindingIdle /\ ObjectIdle

NextDirect ==
    \/ \E resourceAttrib \in DirectAttributes, resp \in SSARResponses :
          DirectCreate(resourceAttrib, resp)
    \/ DirectReturn

SpecDirect == InitDirect /\ [][NextDirect]_vars

InitCached == ValidationIdle /\ DiffIdle /\ ValidateIdle /\ PreflightIdle /\ FlattenIdle /\ DirectIdle /\ CachedInit /\ BindingIdle /\ ObjectIdle

NextCached ==
    \/ \E c \in Callers, resourceAttrib \in CachedAttributes : CachedCall(c, resourceAttrib)
    \/ \E c \in Callers : CachedLock(c)
    \/ \E c \in Callers, resp \in SSRRResponses : CachedFetched(c, resp)
    \/ \E c \in Callers : CachedEval(c)

SpecCached == InitCached /\ [][NextCached]_vars

InitBinding == ValidationIdle /\ DiffIdle /\ ValidateIdle /\ PreflightIdle /\ FlattenIdle /\ DirectIdle /\ CachedIdle /\ BindingInit /\ ObjectIdle

NextBinding == BindingSwitch \/ BindingRoleBinding \/ BindingClusterRoleBinding

SpecBinding == InitBinding /\ [][NextBinding]_vars

(***************************************************************************)
(* Claims on EnumChangeValidation and RequiredFieldChangeValidation        *)
(* (SpecValidation).  vIn is the diff as the last call received it.        *)
(***************************************************************************)
\* The nodes of a diff are equal but for their Enum.
OnlyEnumDiffers(diff) ==
    [diff.Old EXCEPT !.Enum = NilSlice] = [diff.New EXCEPT !.Enum = NilSlice]

\* The nodes of a diff are equal but for their Required.
OnlyRequiredDiffers(diff) ==
    [diff.Old EXCEPT !.Required = NilSlice] = [diff.New EXCEPT !.Required = NilSlice]

\* C9: EnumChangeValidation returns an error if and only if the old node has
\* no enum values and the new one has some, or some enum value of the old
\* node is missing from the new node; when values are only added to a
\* non-empty old enum set and nothing else differs it returns no error and
\* handled = true.
C9_EnumErrorIffUnsafe ==
    vCall = "Enum" =>
        LET old == vIn.Old.Enum.elems
            new == vIn.New.Enum.elems
            introduced == Len(old) = 0 /\ Len(new) > 0
            removed == \E i \in DOMAIN old : \A j \in DOMAIN new : new[j] # old[i]
            onlyAdded == /\ Len(old) > 0
                         /\ ~removed
                         /\ OnlyEnumDiffers(vIn)
        IN  /\ (vRes.err # NoErr) <=> (introduced \/ removed)
            /\ onlyAdded => (vRes.err = NoErr /\ vRes.handled)

\* C9 witness: a value was added to a non-empty enum set, nothing else
\* differs, and the call returned handled with no error.
C9_Witness ==
    /\ vCall = "Enum"
    /\ vIn.Old.Enum = Slice(<<"foo">>)
    /\ vIn.New.Enum = Slice(<<"foo", "bar">>)
    /\ OnlyEnumDiffers(vIn)
    /\ vRes = [handled |-> TRUE, err |-> NoErr]

\* C10: RequiredFieldChangeValidation returns an error if and only if the
\* new node's required list holds a name the old node's list does not; when
\* names are only removed or the set is unchanged and nothing else differs
\* it returns no error and handled = true.
C10_RequiredErrorIffAdded ==
    vCall = "Required" =>
        LET old == vIn.Old.Required.elems
            new == vIn.New.Required.elems
            added == \E j \in DOMAIN new : \A i \in DOMAIN old : old[i] # new[j]
        IN  /\ (vRes.err # NoErr) <=> added
            /\ (~added /\ OnlyRequiredDiffers(vIn)) => (vRes.err = NoErr /\ vRes.handled)

\* C10 witness: the only required name was removed, nothing else differs,
\* and the call returned handled with no error.
C10_Witness ==
    /\ vCall = "Required"
    /\ vIn.Old.Required = Slice(<<"a">>)
    /\ len(vIn.New.Required) = 0
    /\ OnlyRequiredDiffers(vIn)
    /\ vRes = [handled |-> TRUE, err |-> NoErr]

(***************************************************************************)
(* Claims on CalculateFlatSchemaDiff (SpecDiff).                           *)
(***************************************************************************)
\* C5: whenever a path of old is absent from new, CalculateFlatSchemaDiff
\* returns an error and the diff map returned with it is empty.
C5_RemovalReturnsEmptyDiff ==
    (dPc = "done" /\ \E p \in DOMAIN dOld : p \notin DOMAIN dNew) =>
        (dErr # NoErr /\ dMap = NoDiffs)

\* C6: the result of CalculateFlatSchemaDiff (whether it errors, the path
\* the error names, the diff map) is the same for every order in which the
\* paths of old are visited.
C6_OrderIndependent ==
    dPc = "done" =>
        \A order \in Orders(DOMAIN dOld) :
            CalculateFlatSchemaDiff(dOld, dNew, order) = [map |-> dMap, err |-> dErr]

\* C7: when every path of old is in new, CalculateFlatSchemaDiff returns no
\* error and a diff map whose keys are exactly the paths of old whose old
\* and new nodes are unequal once the child Properties of both are cleared;
\* a path of new alone is never a key of the diff map.
C7_DiffKeysExact ==
    /\ DOMAIN dMap \subseteq DOMAIN dOld
    /\ (dPc = "done" /\ DOMAIN dOld \subseteq DOMAIN dNew) =>
        /\ dErr = NoErr
        /\ DOMAIN dMap =
              {p \in DOMAIN dOld :
                  [dOld[p] EXCEPT !.Properties = NoProperties]
                      # [dNew[p] EXCEPT !.Properties = NoProperties]}

\* C7 witness: the call has returned; "^" differs only in its child
\* Properties and has no entry, "^.foo" differs in ID and is the only key,
\* "^.bar" is in new alone.
C7_Witness ==
    /\ dPc = "done"
    /\ DOMAIN dOld = {"^", "^.foo"}
    /\ DOMAIN dNew = {"^", "^.foo", "^.bar"}
    /\ dOld["^"] # dNew["^"]
    /\ dOld["^"].ID = dNew["^"].ID
    /\ dOld["^.foo"].ID # dNew["^.foo"].ID
    /\ dErr = NoErr
    /\ DOMAIN dMap = {"^.foo"}

(***************************************************************************)
(* Claims on ChangeValidator.Validate (SpecValidate).                      *)
(***************************************************************************)
\* Version i of old has a same-named version in new.
Common(i) == \E j \in DOMAIN cvNew : cvNew[j].Name = cvOld[i].Name

FlatOldOf(i) == FlattenSchema(cvOld[i].Schema)
FlatNewOf(i) ==
    FlattenSchema(cvNew[CHOOSE j \in DOMAIN cvNew : cvNew[j].Name = cvOld[i].Name].Schema)

\* Some field of version i of old is missing from the same version of new.
FieldRemoved(i) == \E p \in DOMAIN FlatOldOf(i) : p \notin DOMAIN FlatNewOf(i)

\* The paths of version i that have a Field Diff.
FieldsWithDiff(i) ==
    {p \in DOMAIN FlatOldOf(i) \cap DOMAIN FlatNewOf(i) :
        [FlatOldOf(i)[p] EXCEPT !.Properties = NoProperties]
            # [FlatNewOf(i)[p] EXCEPT !.Properties = NoProperties]}

\* The invocations logged for one field of one version.
CallsOn(i, field) == {k \in DOMAIN cvCalls : cvCalls[k][1] = i /\ cvCalls[k][2] = field}

\* C1: for every version common to old and new and every path with a Field
\* Diff, if no validation returned handled (the empty list included) the
\* error Validate returns is not nil and holds the unknown-change error of
\* that version and path.
C1_DenyByDefault ==
    cvPc = "done" =>
        \A i \in DOMAIN cvOld :
            (Common(i) /\ ~FieldRemoved(i)) =>
                \A field \in FieldsWithDiff(i) :
                    (\A k \in CallsOn(i, field) : ~cvCalls[k][4]) =>
                        /\ cvRet # NilError
                        /\ \E e \in DOMAIN cvRet :
                              cvRet[e] = UnknownChangeError(cvOld[i].Name, field)

\* C1 witness: two validations, neither claiming the diff nor failing, and
\* Validate has returned the unknown-change error alone.
C1_Witness ==
    /\ cvPc = "done"
    /\ cvVals = <<"deferred", "deferred">>
    /\ Len(cvCalls) = 2
    /\ cvRet = <<UnknownChangeError("v1alpha1", "^")>>

\* C2: on each Field Diff the validations are invoked in list order, each
\* but the first right after its predecessor returned not handled; so once
\* one returns handled no later one is invoked on that Field Diff, with or
\* without an error from the claiming validation.
C2_ShortCircuit ==
    /\ \A k \in DOMAIN cvCalls :
          \/ cvCalls[k][3] = 1
          \/ /\ k > 1
             /\ cvCalls[k - 1] = <<cvCalls[k][1], cvCalls[k][2], cvCalls[k][3] - 1, FALSE>>
    /\ \A k, l \in DOMAIN cvCalls :
          (/\ cvCalls[k][1] = cvCalls[l][1]
           /\ cvCalls[k][2] = cvCalls[l][2]
           /\ cvCalls[k][3] = cvCalls[l][3]) => k = l

\* C2 witness: the first of two validations claimed the diff and failed, and
\* Validate returned having invoked nothing else.
C2_Witness ==
    /\ cvPc = "done"
    /\ cvVals = <<"handledFail", "deferred">>
    /\ cvCalls = << <<1, "^", 1, TRUE>> >>
    /\ cvRet = <<ValidationError("v1alpha1", "^", Err("fail", {}))>>

\* The errors recorded for version i of old (the names of old are distinct).
ErrorsOf(i) == {e \in DOMAIN cvErrs : cvErrs[e].version = cvOld[i].Name}

\* C8: a version of old with no same-named version in new is skipped
\* without error; a diff-phase error records one error for its version and
\* runs no validation for it; the other versions are validated all the
\* same; Validate returns nil if and only if no error was recorded.
C8_AccumulatesAcrossVersions ==
    cvPc = "done" =>
        /\ \A i \in DOMAIN cvOld :
              CASE ~Common(i) ->
                      /\ ErrorsOf(i) = {}
                      /\ \A k \in DOMAIN cvCalls : cvCalls[k][1] # i
                [] FieldRemoved(i) ->
                      /\ Cardinality(ErrorsOf(i)) = 1
                      /\ \A e \in ErrorsOf(i) : cvErrs[e] = DiffPhaseError(cvOld[i].Name)
                      /\ \A k \in DOMAIN cvCalls : cvCalls[k][1] # i
                [] OTHER ->
                      \A field \in FieldsWithDiff(i) :
                          /\ cvVals # <<>> => \E k \in CallsOn(i, field) : cvCalls[k][3] = 1
                          /\ (\E k \in CallsOn(i, field) : cvCalls[k][4])
                                \/ \E e \in ErrorsOf(i) :
                                      cvErrs[e] = UnknownChangeError(cvOld[i].Name, field)
        /\ (cvRet = NilError) <=> (cvErrs = <<>>)
        /\ cvRet = cvErrs

\* C8 witness: the first version of old lost a field, the second has a
\* diff that was validated and refused, and Validate returned both errors.
C8_Witness ==
    /\ cvPc = "done"
    /\ Len(cvOld) = 2
    /\ Common(1) /\ FieldRemoved(1)
    /\ Common(2) /\ ~FieldRemoved(2)
    /\ \E k \in DOMAIN cvCalls : cvCalls[k][1] = 2
    /\ Len(cvRet) = 2
    /\ cvRet[1] = DiffPhaseError(cvOld[1].Name)
    /\ cvRet[2].version = cvOld[2].Name

(***************************************************************************)
(* Claims on permissions.Preflight (SpecPreflight).  pAccepted is the      *)
(* strategy name, as given, of the last SetConfig that returned nil.       *)
(***************************************************************************)
\* Every check of the Run under way was made with this PermissionValidator.
RunUses(strategy) ==
    /\ rStrategy = strategy
    /\ \A k \in DOMAIN rChecks : rChecks[k].strategy = strategy

\* C3: after SetConfig succeeded with SelfSubjectRulesReview every later
\* Run makes its checks with the cached rules-review strategy, and after
\* SetConfig succeeded with SelfSubjectAccessReview with the direct one.
C3_ConfigSelectsStrategy ==
    (rPc = "checking" /\ pAccepted.set) =>
        /\ pAccepted.name = PermissionValidatorTypeSelfSubjectRulesReview =>
              RunUses("SelfSubjectRulesReviewValidator")
        /\ pAccepted.name = PermissionValidatorTypeSelfSubjectAccessReview =>
              RunUses("SelfSubjectAccessReviewValidator")

\* The strategy names SetConfig knows, the empty one included.
KnownConfig(cfg) ==
    \/ cfg.type = "absent"
    \/ /\ cfg.type = "string"
       /\ cfg.value \in {"", PermissionValidatorTypeSelfSubjectAccessReview,
                         PermissionValidatorTypeSelfSubjectRulesReview}

\* C4: SetConfig returns an error for every strategy name other than the
\* two known ones and the empty name, leaving the stored configuration and
\* the enabled flag as they were; the empty (or absent) name is accepted,
\* and a later Run uses the direct strategy.
C4_UnknownStrategyRejected ==
    /\ [][pCall'.op = "SetConfig" =>
            /\ ~KnownConfig(pCall'.cfg) =>
                  /\ pCall'.err # NoErr
                  /\ pConfig' = pConfig
                  /\ pEnabled' = pEnabled
                  /\ pAccepted' = pAccepted
            /\ (pCall'.cfg.type = "absent" \/ pCall'.cfg = StringValue("")) =>
                  /\ pCall'.err = NoErr
                  /\ pAccepted' = [set |-> TRUE, name |-> ""]]_vars
    /\ []((rPc = "checking" /\ pAccepted = [set |-> TRUE, name |-> ""]) =>
            RunUses("SelfSubjectAccessReviewValidator"))

\* C4 witness: an enabled Preflight that accepted the empty name has just
\* refused an unknown one.
C4_Witness ==
    /\ pCall.op = "SetConfig"
    /\ pCall.cfg = StringValue("Bogus")
    /\ pCall.err = Err("unknown permissionValidatorType", {"Bogus"})
    /\ pEnabled
    /\ pAccepted = [set |-> TRUE, name |-> ""]
    /\ pConfig = PermissionValidatorTypeSelfSubjectAccessReview

(***************************************************************************)
(* Claims on the handled flag of the two validations (SpecValidation).     *)
(***************************************************************************)
\* C11: for EnumChangeValidation and RequiredFieldChangeValidation alike,
\* handled is true if and only if the old and new nodes are equal once the
\* validation's own attribute is cleared on both, whether or not an error
\* is returned: an unsafe change with no other difference gives
\* handled = true with an error, a difference in another attribute gives
\* handled = false.
C11_HandledIffRestEqual ==
    /\ vCall = "Enum" =>
          /\ vRes.handled <=> OnlyEnumDiffers(vIn)
          /\ (vIn.Old.ID # vIn.New.ID \/ vIn.Old.Required # vIn.New.Required) => ~vRes.handled
    /\ vCall = "Required" =>
          /\ vRes.handled <=> OnlyRequiredDiffers(vIn)
          /\ (vIn.Old.ID # vIn.New.ID \/ vIn.Old.Enum # vIn.New.Enum) => ~vRes.handled

\* C11 witness: the only enum value was removed and nothing else differs;
\* the call returned handled together with the error.
C11_Witness ==
    /\ vCall = "Enum"
    /\ vIn.Old.Enum = Slice(<<"foo">>)
    /\ vIn.New.Enum = NilSlice
    /\ OnlyEnumDiffers(vIn)
    /\ vRes = [handled |-> TRUE, err |-> Err("enum values removed", {"foo"})]

(***************************************************************************)
(* Claims on FlattenSchema (SpecFlatten).                                  *)
(***************************************************************************)
\* The nodes reachable from node through child properties, each with the
\* names leading to it.
RECURSIVE ReachableFrom(_, _)
ReachableFrom(node, names) ==
    {[names |-> names, node |-> node]} \cup
    UNION {ReachableFrom(node.Properties[c], Append(names, c)) : c \in DOMAIN node.Properties}

\* "^" for the root, p + "." + n for the child named n of the node at p.
RECURSIVE PathOf(_)
PathOf(names) ==
    IF names = <<>> THEN "^"
    ELSE ChildPath(PathOf(SubSeq(names, 1, Len(names) - 1)), names[Len(names)])

\* C12: the FlatSchema FlattenSchema returns has exactly one entry per node
\* reachable from the root through child properties, at the path of that
\* node, equal to the node, and no other entry.
C12_FlattenExact ==
    fPc = "done" =>
        LET reachable == ReachableFrom(fSchema, <<>>)
        IN  /\ DOMAIN fMap = {PathOf(r.names) : r \in reachable}
            /\ Cardinality(DOMAIN fMap) = Cardinality(reachable)
            /\ \A r \in reachable : fMap[PathOf(r.names)] = r.node

(***************************************************************************)
(* Claims on the loop of Preflight.Run (SpecPreflight).  rChecks is the    *)
(* log of the validator.Validate calls of the Run under way.               *)
(***************************************************************************)
\* The checks the changes from the i-th on call for, in order.
RECURSIVE ExpectedChecks(_, _)
ExpectedChecks(changes, i) ==
    IF i > Len(changes)
    THEN <<>>
    ELSE (CASE changes[i] = "delete" -> << <<i, "delete">> >>
            [] changes[i] = "upsert" -> << <<i, "create">>, <<i, "update">> >>
            [] OTHER -> <<>>)
         \o ExpectedChecks(changes, i + 1)

RunReachedLoop == rPc = "returned" /\ rRet.kind # "deps"

C15_DirectOneQueryPerCall ==
    /\ Len(aQueries) = Len(aLog) + (IF aPc = "created" THEN 1 ELSE 0)
    /\ \A k \in DOMAIN aLog :
          LET call == aLog[k]
              ok == /\ ~call.resp.createErr
                    /\ ~call.resp.isNil
                    /\ call.resp.EvaluationError = ""
                    /\ call.resp.Allowed
              deny == /\ ~call.resp.createErr
                      /\ ~call.resp.isNil
                      /\ call.resp.EvaluationError = ""
                      /\ ~call.resp.Allowed
          IN  /\ call.queries = k
              /\ aQueries[k] = call.attrib
              /\ (call.err = NoErr) <=> ok
              /\ deny => /\ call.err.kind = "not permitted"
                         /\ call.attrib.Verb \in call.err.values
                         /\ GVRString(call.attrib) \in call.err.values
              /\ \A l \in DOMAIN aLog :
                    (aLog[l].attrib = call.attrib /\ aLog[l].resp = call.resp) =>
                        aLog[l].err = call.err

\* C15 witness: a call answered "allowed" with an evaluation error failed,
\* and a second call for the same attributes, denied, named them.
C15_Witness ==
    /\ Len(aLog) = 2
    /\ aLog[1].resp = [createErr |-> FALSE, isNil |-> FALSE, EvaluationError |-> "boom",
                       Allowed |-> TRUE]
    /\ aLog[1].err = Err("unable to validate permissions", {"boom"})
    /\ aLog[2].attrib = aLog[1].attrib
    /\ aLog[2].attrib.Verb = "delete"
    /\ aLog[2].err = Err("not permitted", {"delete", "apps/v1, Resource=deployments"})
    /\ Len(aQueries) = 2

(***************************************************************************)
(* Claims on SelfSubjectRulesReviewValidator (SpecCached).  kFetches is    *)
(* the log of the bulk queries sent, kLog the log of the calls that        *)
(* returned, both in the order of the critical sections.                   *)
(***************************************************************************)
\* The bulk queries sent for a namespace.
FetchesOf(ns) == {i \in DOMAIN kFetches : kFetches[i].ns = ns}

\* Those of them that were answered with a complete review.
GoodFetchesOf(ns) == {i \in FetchesOf(ns) : kFetches[i].status = "ok"}

\* The callers between cache lookup and return.
InSection == {c \in Callers : kPc[c] \in {"fetching", "eval"}}

\* C16 as stated: any two checks in the same namespace trigger exactly one
\* bulk fetch for that namespace in total, and checks in different
\* namespaces each trigger their own fetch.
C16_OneFetchPerNamespace ==
    \A k, l \in DOMAIN kLog :
        /\ (k # l /\ kLog[k].ns = kLog[l].ns) => Cardinality(FetchesOf(kLog[k].ns)) = 1
        /\ (kLog[k].ns # kLog[l].ns) =>
              /\ FetchesOf(kLog[k].ns) # {}
              /\ FetchesOf(kLog[l].ns) # {}
              /\ FetchesOf(kLog[k].ns) \cap FetchesOf(kLog[l].ns) = {}

\* C16 amended: a namespace has at most one bulk fetch that succeeded and
\* none after it, so two checks in one namespace whose first fetch
\* succeeded trigger exactly one fetch in total; a fetch that failed or was
\* incomplete stores nothing and the next check in that namespace fetches
\* again; every check sends at most one fetch, and checks in different
\* namespaces each trigger their own.
C16_OneGoodFetchPerNamespace ==
    /\ \A i, j \in DOMAIN kFetches :
          (i < j /\ kFetches[i].ns = kFetches[j].ns) =>
              kFetches[i].status \in {"failed", "incomplete"}
    /\ \A ns \in DOMAIN kCache : Cardinality(GoodFetchesOf(ns)) = 1
    /\ \A k \in DOMAIN kLog :
          /\ FetchesOf(kLog[k].ns) # {}
          /\ kLog[k].evaluated => Cardinality(GoodFetchesOf(kLog[k].ns)) = 1
          /\ kLog[k].fetch = "none" <=>
                \E j \in DOMAIN kLog : j < k /\ kLog[j].ns = kLog[k].ns /\ kLog[j].evaluated
    /\ Len(kFetches) = Cardinality({k \in DOMAIN kLog : kLog[k].fetch # "none"})
                       + Cardinality({c \in InSection : kFetched[c] # "none"})

\* C16 witness: two checks in "ns1" have returned, the first having fetched
\* the rules and the second not, and a single fetch was sent.
C16_Witness ==
    /\ Len(kLog) = 2
    /\ kLog[1].attrib.Namespace = "ns1" /\ kLog[2].attrib.Namespace = "ns1"
    /\ kLog[1].fetch = "ok" /\ kLog[2].fetch = "none"
    /\ kLog[1].evaluated /\ kLog[2].evaluated
    /\ Len(kFetches) = 1

\* C17: a check whose bulk query failed or came back incomplete returns an
\* error whatever rules the review carried; such a review is never
\* evaluated and never stored, so it never yields an allow.
C17_IncompleteNeverAllows ==
    /\ \A k \in DOMAIN kLog :
          /\ kLog[k].fetch \in {"failed", "incomplete"} =>
                (kLog[k].err # NoErr /\ ~kLog[k].evaluated)
          /\ kLog[k].evaluated =>
                /\ kLog[k].fetch \in {"none", "ok"}
                /\ \E i \in GoodFetchesOf(kLog[k].ns) : kFetches[i].rules = kLog[k].rules
          /\ kLog[k].err = NoErr => kLog[k].evaluated
    /\ \A ns \in DOMAIN kCache :
          \E i \in GoodFetchesOf(ns) : kFetches[i].rules = kCache[ns]

\* C17 witness: a "create" check got an incomplete review whose rules allow
\* it, and returned the incompleteness error.
C17_Witness ==
    /\ Len(kLog) = 1
    /\ kLog[1].attrib.Verb = "create"
    /\ kLog[1].fetch = "incomplete"
    /\ kFetches[1].rules = RulesOf(SomeRules)
    /\ RulesAllow(kLog[1].attrib, kFetches[1].rules)
    /\ kLog[1].err = Err("selfsubjectrulesreview is incomplete", {})

\* The checks made with an empty namespace or with "default".
DefaultChecks == {k \in DOMAIN kLog : kLog[k].attrib.Namespace \in {"", "default"}}

\* C18: the empty namespace is turned into "default" before the cache
\* lookup and the bulk query: checks with "" and with "default" share the
\* cache entry "default", cause at most one successful fetch between them
\* and are evaluated against the same rules.
C18_EmptyNamespaceIsDefault ==
    /\ "" \notin DOMAIN kCache
    /\ \A i \in DOMAIN kFetches : kFetches[i].ns # ""
    /\ Cardinality(GoodFetchesOf("default")) <= 1
    /\ \A k \in DefaultChecks :
          /\ kLog[k].ns = "default"
          /\ kLog[k].evaluated => kLog[k].rules = kCache["default"]
          /\ \A l \in DefaultChecks :
                /\ (kLog[k].evaluated /\ kLog[l].evaluated) => kLog[k].rules = kLog[l].rules
                /\ (k < l /\ kLog[k].evaluated) => kLog[l].fetch = "none"

\* C18 witness: a check with an empty namespace fetched the rules and a
\* check with "default" was answered from them with no second fetch.
C18_Witness ==
    /\ Len(kLog) = 2
    /\ kLog[1].attrib.Namespace = "" /\ kLog[1].fetch = "ok" /\ kLog[1].evaluated
    /\ kLog[2].attrib.Namespace = "default" /\ kLog[2].fetch = "none" /\ kLog[2].evaluated
    /\ kLog[1].rules = kLog[2].rules
    /\ Len(kFetches) = 1
    /\ kFetches[1].ns = "default"

\* C19: however the calls interleave, at most one is between cache lookup
\* and return, and it holds the lock, the bulk query included; when all
\* bulk queries succeed no namespace is fetched twice.
C19_SectionIsExclusive ==
    /\ Cardinality(InSection) <= 1
    /\ \A c \in InSection : kMu = c
    /\ InSection = {} => kMu = "free"
    /\ \A i \in DOMAIN kFetches :
          kFetches[i].status = "pending" =>
              (kMu = kFetches[i].caller /\ InSection = {kFetches[i].caller})
    /\ (\A i \in DOMAIN kFetches : kFetches[i].status \in {"ok", "pending"}) =>
          \A i, j \in DOMAIN kFetches : kFetches[i].ns = kFetches[j].ns => i = j

\* C19 witness: both callers are in a call for the same namespace; one
\* holds the lock with its bulk query out, the other waits at Lock.
C19_Witness ==
    /\ kPc["c1"] = "fetching"
    /\ kPc["c2"] = "lock"
    /\ CacheKey(kAttr["c1"]) = CacheKey(kAttr["c2"])
    /\ kMu = "c1"
    /\ Len(kFetches) = 1

(***************************************************************************)
(* Claims on RulesForBinding (SpecBinding).                                *)
(***************************************************************************)
\* The role reference kinds a binding of this kind may have.
PermittedRoleRefKinds(kind) ==
    CASE kind = "RoleBinding" -> {"Role", "ClusterRole"}
      [] kind = "ClusterRoleBinding" -> {"ClusterRole"}
      [] OTHER -> {}

\* C20: RulesForBinding fetches, for a RoleBinding, the Role of the
\* binding's namespace or the ClusterRole its reference names, and for a
\* ClusterRoleBinding the ClusterRole of a reference of kind ClusterRole;
\* for a reference kind that is not permitted or not recognized it returns
\* an error and no rules, as it does when the fetch fails.
C20_BindingKindsHonoured ==
    (bPc = "done" /\ bRes.typed /\ bRes.Kind \in {"RoleBinding", "ClusterRoleBinding"}) =>
        IF bRes.RoleRef.Kind \in PermittedRoleRefKinds(bRes.Kind)
        THEN LET found == IF bRes.RoleRef.Kind = "Role"
                          THEN <<bRes.Namespace, bRes.RoleRef.Name>> \in bRoles
                          ELSE bRes.RoleRef.Name \in bClusterRoles
             IN  IF found
                 THEN /\ bRet.err = NoErr
                      /\ bRet.rules = IF bRes.RoleRef.Kind = "Role"
                                      THEN RoleRules(bRes.Namespace, bRes.RoleRef.Name)
                                      ELSE ClusterRoleRules(bRes.RoleRef.Name)
                 ELSE bRet.err # NoErr /\ bRet.rules = NilRules
        ELSE bRet.err # NoErr /\ bRet.rules = NilRules

(***************************************************************************)
(* The end-to-end scenario of the minimum length: the old version has      *)
(* spec of type string with minLength 5, the new one minLength 10.         *)
(***************************************************************************)
MinLengthCRD(minLength) ==
    <<Version("v1alpha1", ChainSchema(SpecProperty("", minLength, NilSlice, NilSlice)))>>

MinLengthScenario ==
    /\ cvOld = MinLengthCRD(Int64(5))
    /\ cvNew = MinLengthCRD(Int64(10))
    /\ cvVals = SuppliedValidations

\* C21: in the minLength scenario (5 raised to 10) Validate with the
\* supplied validations returns a non-nil aggregate error, and a message of
\* that error mentions that the minimum length constraint increased.
C21_MentionsMinimumLength ==
    (MinLengthScenario /\ cvPc = "done") =>
        /\ cvRet # NilError
        /\ \E i \in DOMAIN cvRet :
              "minimum length constraint increased" \in ErrorText(cvRet[i])

\* The two nodes at ^.spec of a finished run of SpecChain, as Validate was
\* given them, and a node with its enum and required lists taken out.
SpecOld == cvOld[1].Schema.Properties["spec"]
SpecNew == cvNew[1].Schema.Properties["spec"]
WithoutEnumAndRequired(node) == [node EXCEPT !.Enum = NilSlice, !.Required = NilSlice]
SpecUnknownChange == UnknownChangeError("v1alpha1", "^.spec")

\* C22: with the chain [Enum, Required] in either order, a Field Diff whose
\* nodes differ in nothing but enum and required is claimed by a validation
\* of the chain and yields no unknown-change error, and when both lists
\* differ it is the second validation that claims it, the first having
\* cleared its own attribute on the nodes the second is handed; a Field Diff
\* that differs in another attribute as well yields the unknown-change
\* error.
C22_ClearingSeenByLaterValidators ==
    cvPc = "done" =>
        /\ (SpecOld # SpecNew
              /\ WithoutEnumAndRequired(SpecOld) = WithoutEnumAndRequired(SpecNew)) =>
                /\ \E vi \in DOMAIN cvVals : <<1, "^.spec", vi, TRUE>> \in Range(cvCalls)
                /\ SpecUnknownChange \notin Range(cvRet)
                /\ (SpecOld.Enum # SpecNew.Enum /\ SpecOld.Required # SpecNew.Required) =>
                      /\ <<1, "^.spec", 1, FALSE>> \in Range(cvCalls)
                      /\ <<1, "^.spec", 2, TRUE>> \in Range(cvCalls)
        /\ WithoutEnumAndRequired(SpecOld) # WithoutEnumAndRequired(SpecNew) =>
                SpecUnknownChange \in Range(cvRet)

C22_Witness ==
    /\ cvPc = "done"
    /\ cvVals = <<"Required", "Enum">>
    /\ SpecOld.Enum # SpecNew.Enum
    /\ SpecOld.Required # SpecNew.Required
    /\ WithoutEnumAndRequired(SpecOld) = WithoutEnumAndRequired(SpecNew)
    /\ <<1, "^.spec", 2, TRUE>> \in Range(cvCalls)
    /\ SpecUnknownChange \notin Range(cvRet)

\* The error the validation of a logged invocation returned (the
\* validations of SpecValidate return the same error on every diff).
ErrorOfCall(call) == ApplyValidation(cvVals[call[3]], cvDiff).err

\* C23: the error a validation returns is in the aggregate whether or not
\* that validation claimed the diff; a validation that returns
\* handled=false with an error is followed by the next validation of the
\* chain, so Validate returns non-nil even when a later validation claims
\* the diff with no error; and when no validation claims the diff the
\* aggregate holds the validation's error and the unknown-change error.
C23_ErrorKeptWhetherClaimed ==
    cvPc = "done" =>
        \A k \in DOMAIN cvCalls :
            LET call == cvCalls[k]
                version == cvOld[call[1]].Name
                field == call[2]
            IN  /\ ErrorOfCall(call) # NoErr =>
                      /\ cvRet # NilError
                      /\ ValidationError(version, field, ErrorOfCall(call)) \in Range(cvRet)
                /\ (~call[4] /\ call[3] < Len(cvVals)) =>
                      \E j \in CallsOn(call[1], field) : cvCalls[j][3] = call[3] + 1
                /\ (ErrorOfCall(call) # NoErr
                      /\ \A j \in CallsOn(call[1], field) : ~cvCalls[j][4]) =>
                      UnknownChangeError(version, field) \in Range(cvRet)

\* C23 witness: the first validation declined with an error, the second
\* claimed the diff with none, and Validate returned the first one's error.
C23_Witness ==
    /\ cvPc = "done"
    /\ cvVals = <<"deferredFail", "handled">>
    /\ cvCalls = << <<1, "^", 1, FALSE>>, <<1, "^", 2, TRUE>> >>
    /\ cvRet = <<ValidationError(cvOld[1].Name, "^", Err("fail", {}))>>

\* The paths version i of old has and the same version of new lacks.
RemovedFields(i) == DOMAIN FlatOldOf(i) \ DOMAIN FlatNewOf(i)

C25_CacheWrittenOnlyOnSuccess ==
    [][/\ \A ns \in DOMAIN kCache : ns \in DOMAIN kCache' /\ kCache'[ns] = kCache[ns]
       /\ \A c \in Callers :
             /\ (kPc[c] = "fetching" /\ kPc'[c] = "idle") =>
                   /\ kCache' = kCache
                   /\ CacheKey(kAttr[c]) \notin DOMAIN kCache'
                   /\ kLog'[Len(kLog')].fetch \in {"failed", "incomplete"}
             /\ (kPc[c] = "lock" /\ kPc'[c] # "lock") =>
                   IF CacheKey(kAttr[c]) \in DOMAIN kCache
                   THEN kPc'[c] = "eval" /\ kFetches' = kFetches
                   ELSE /\ kPc'[c] = "fetching"
                        /\ Len(kFetches') = Len(kFetches) + 1
                        /\ kFetches'[Len(kFetches')].ns = CacheKey(kAttr[c])
       /\ kCache' # kCache =>
             \E c \in Callers :
                 /\ kPc[c] = "fetching" /\ kPc'[c] = "eval"
                 /\ kFetched'[c] = "ok"
                 /\ CacheKey(kAttr[c]) \notin DOMAIN kCache
                 /\ DOMAIN kCache' = DOMAIN kCache \cup {CacheKey(kAttr[c])}]_vars

\* C25 witness: the check in "ns1" stored its rules, the bulk fetch of the
\* check in "default" then failed, and the cache holds the entry of "ns1"
\* alone, with the rules that were stored.
C25_Witness ==
    /\ Len(kLog) = 2
    /\ kLog[1].ns = "ns1" /\ kLog[1].fetch = "ok"
    /\ kLog[2].ns = "default" /\ kLog[2].fetch = "failed"
    /\ DOMAIN kCache = {"ns1"}
    /\ kCache["ns1"] = kFetches[1].rules

\* C26: Validate ends with a result for every pair of CRDs, a version of
\* old or the same version of new without a schema included: the absent
\* schema is reported or skipped, and Validate never panics.
C26_NoSchemaNoPanic == cvPc # "panic"

\* C27: Validate and CalculateFlatSchemaDiff leave their inputs as they
\* were: no step changes or drops an object of the CRD documents or an
\* object a FlatSchema points to, the clearing of Properties and the
\* validations' clearing of enum and required being made on copies.
C27_InputsUnchanged ==
    [][\A r \in DOMAIN hHeap :
          r.obj \in {"doc", "flat"} => (r \in DOMAIN hHeap' /\ hHeap'[r] = hHeap[r])]_vars

\* C27 witness: Validate has returned; the root of old still has its enum
\* in the document and in flatOld, where it also kept its Properties, and
\* the copy the FieldDiff points to has lost both.
C27_Witness ==
    /\ hPc = "done"
    /\ Ref("diff", "old", "^") \in DOMAIN hHeap
    /\ hHeap[Ref("diff", "old", "^")].Enum = Slice(<<>>)
    /\ hHeap[Ref("diff", "old", "^")].Properties = NoProperties
    /\ hHeap[Ref("doc", "old", "^")].Enum = Slice(<<"foo">>)
    /\ hHeap[Ref("flat", "old", "^")] = hHeap[Ref("doc", "old", "^")]
    /\ hHeap[Ref("flat", "old", "^")].Properties # NoProperties

====
